---- MODULE Spec2Model ----
(***************************************************************************)
(* Model of the interpeer-mcp review router                                *)
(* (tools/interpeer-mcp/src/index.ts): the response cache, the retry       *)
(* executor, the config loader and routeReview.                            *)
(*                                                                         *)
(* Optional values (T | undefined) are sequences: <<>> is undefined/null,  *)
(* <<v>> is the value v.                                                   *)
(***************************************************************************)
EXTENDS Integers, Sequences, FiniteSets, TLC

VARIABLES
  resultCache,   \* the Map<string, CachedEntry>, in iteration (insertion) order
  now,           \* Date.now()
  heap,          \* the nested usage objects, by reference
  boot,          \* server, started, projectRootPath (index.ts:42-46) and the bootstrapServer calls
  flight,        \* the routeReview calls in flight side by side: the locals of each
  callerResult,  \* the result object a caller of the cache holds
  held,          \* the entry a caller got back from getCacheEntry
  lastOp,        \* the last cache call: its arguments and what it returned
  run,           \* history: the inserts made since the cache was last empty
  snap,          \* history: per key, the value (usage included) given to the store
  rt,            \* withRetries: its locals (attempt, delay) and where it stands
  op,            \* the operation given to withRetries, and what was seen of the run
  env,           \* process.env
  fsys,          \* the files under the project root, by relative path
  defaultTargetAgent,    \* index.ts:47
  defaultModelOverride,  \* index.ts:55
  runtimeConfig,         \* index.ts:45, the memoized configuration
  loaded,        \* what the last direct call of loadConfig returned
  call,          \* the routeReview call in flight: its locals and where it stands
  resp,          \* what the last routeReview call returned or threw
  checked,       \* claudeCliChecked / codexCliChecked / factoryCliChecked
  installed,     \* the commands whose --version probe succeeds
  obs,           \* history: what the call in flight saw when it began
  prev,          \* history: the last call, if it succeeded with caching on
  trace,         \* history: the steps the call in flight has taken, in order
  reply          \* what the interpeer_review tool handler answered last

cacheVars == <<resultCache, now, heap, flight, boot, callerResult, held, lastOp, run, snap>>
retryVars == <<rt, op>>
configVars == <<env, fsys, defaultTargetAgent, defaultModelOverride, runtimeConfig, loaded>>

routeVars == <<call, resp, checked, installed, obs, prev, trace, reply>>

vars == <<resultCache, now, heap, flight, boot, callerResult, held, lastOp, run, snap, rt, op,
          env, fsys, defaultTargetAgent, defaultModelOverride, runtimeConfig, loaded,
          call, resp, checked, installed, obs, prev, trace, reply>>

None == <<>>
Some(v) == <<v>>
IsSome(o) == o # <<>>
Get(o) == o[1]
OrElse(o, d) == IF o # <<>> THEN o[1] ELSE d

-----------------------------------------------------------------------------
(* Bounds *)
MaxTime == 1
MaxCap == 2
MaxRef == 2
MaxTok == 1
MaxAttempts == 3
MaxFails == 3
MaxEnvVars == 2
MaxClock == 2
MaxRouteAttempts == 2

-----------------------------------------------------------------------------
(* Cache keys: buildCacheKey *)

NoInput ==
  [content |-> <<>>, focus |-> None, style |-> None, review_type |-> None,
   time_budget_seconds |-> None, target_agent |-> None, target_model |-> None,
   resource_paths |-> None]

\* A key that leaves the response style out.
buildCacheKey_NoStyle(input, agent, modelOverride) ==
  <<"agent", agent,
    "content", input.content,
    "focus", OrElse(input.focus, <<>>),
    "review_type", OrElse(input.review_type, "general"),
    "time_budget_seconds", input.time_budget_seconds,
    "target_model",
       IF IsSome(modelOverride) THEN modelOverride ELSE input.target_model>>

\* JSON.stringify of the normalized fields, in the fixed literal order of the
\* object literal: the serialization is one-to-one on these seven fields.
buildCacheKey(input, agent, modelOverride) ==
  <<"agent", agent,
    "content", input.content,
    "focus", OrElse(input.focus, <<>>),
    "style", OrElse(input.style, "structured"),
    "review_type", OrElse(input.review_type, "general"),
    "time_budget_seconds", input.time_budget_seconds,
    "target_model",
       IF IsSome(modelOverride) THEN modelOverride ELSE input.target_model>>

-----------------------------------------------------------------------------
(* The JavaScript Map the cache is kept in *)

MapHas(m, key) == \E i \in 1..Len(m) : m[i].key = key
MapIndex(m, key) == CHOOSE i \in 1..Len(m) : m[i].key = key
MapGet(m, key) == IF MapHas(m, key) THEN Some(m[MapIndex(m, key)].value) ELSE None
\* Map.prototype.set: a key already present keeps its place in the
\* iteration order and only its value is replaced; a new key goes last.
MapSet(m, key, value) ==
  IF MapHas(m, key)
    THEN [m EXCEPT ![MapIndex(m, key)].value = value]
    ELSE Append(m, [key |-> key, value |-> value])
MapDelete(m, key) == SelectSeq(m, LAMBDA e : e.key # key)
\* resultCache.keys().next().value
MapFirstKey(m) == IF Len(m) > 0 THEN Some(m[1].key) ELSE None
MapKeys(m) == [i \in 1..Len(m) |-> m[i].key]

-----------------------------------------------------------------------------
(* getCacheEntry / storeCacheEntry *)

\* { ...obj } makes a new top-level object whose fields hold the same values:
\* a nested object (usage) is copied as the same reference into the heap.
\* A lookup that reports an expired entry as absent but leaves it in the map.
getCacheEntry_NoDelete(m, key, ttlMs, t) ==
  LET entry == MapGet(m, key) IN
  IF ~IsSome(entry) \/ t - Get(entry).timestamp > ttlMs
    THEN [cache |-> m, ret |-> None]
    ELSE [cache |-> m, ret |-> Some(Get(entry))]

\* A lookup that treats the boundary age as expired.
getCacheEntry_Boundary(m, key, ttlMs, t) ==
  LET entry == MapGet(m, key) IN
  IF ~IsSome(entry) THEN [cache |-> m, ret |-> None]
  ELSE IF t - Get(entry).timestamp >= ttlMs
    THEN [cache |-> MapDelete(m, key), ret |-> None]
    ELSE [cache |-> m, ret |-> Some(Get(entry))]

\* A lookup that moves the entry it returns to the freshest position.
getCacheEntry_Touch(m, key, ttlMs, t) ==
  LET entry == MapGet(m, key) IN
  IF ~IsSome(entry) THEN [cache |-> m, ret |-> None]
  ELSE IF t - Get(entry).timestamp > ttlMs
    THEN [cache |-> MapDelete(m, key), ret |-> None]
    ELSE [cache |-> Append(MapDelete(m, key), [key |-> key, value |-> Get(entry)]),
          ret |-> Some(Get(entry))]

getCacheEntry(m, key, ttlMs, t) ==
  LET entry == MapGet(m, key) IN
  IF ~IsSome(entry) THEN [cache |-> m, ret |-> None]
  ELSE IF t - Get(entry).timestamp > ttlMs
    THEN [cache |-> MapDelete(m, key), ret |-> None]
    ELSE [cache |-> m,
          ret |-> Some([timestamp |-> Get(entry).timestamp,
                        agent |-> [agent |-> Get(entry).agent.agent,
                                   model |-> Get(entry).agent.model,
                                   text |-> Get(entry).agent.text,
                                   usage |-> Get(entry).agent.usage,
                                   cacheStatus |-> Get(entry).agent.cacheStatus]])]

RECURSIVE EvictLoop(_, _)
EvictLoop(m, maxEntries) ==
  IF Len(m) > maxEntries
    THEN LET oldestKey == MapFirstKey(m) IN
         IF ~IsSome(oldestKey) THEN m
         ELSE EvictLoop(MapDelete(m, Get(oldestKey)), maxEntries)
    ELSE m

\* A store that forgets the capacity loop.
storeCacheEntry_NoEvict(m, key, result, maxEntries, t) ==
  MapSet(m, key, [timestamp |-> t,
                  agent |-> [result EXCEPT !.cacheStatus = None]])

\* A store that adds the entry without looking for the key.
storeCacheEntry_Append(m, key, result, maxEntries, t) ==
  EvictLoop(Append(m, [key |-> key,
                       value |-> [timestamp |-> t,
                                  agent |-> [result EXCEPT !.cacheStatus = None]]]),
            maxEntries)

storeCacheEntry(m, key, result, maxEntries, t) ==
  LET storedAgent == [agent |-> result.agent, model |-> result.model,
                      text |-> result.text, usage |-> result.usage,
                      cacheStatus |-> None] IN
  EvictLoop(MapSet(m, key, [timestamp |-> t, agent |-> storedAgent]), maxEntries)

-----------------------------------------------------------------------------
(* Strings that the code trims, lower-cases or parses are sequences of
   symbols: " " is a whitespace character, "0".."9" and "-" are themselves,
   any other symbol is a run of non-blank characters. *)

IsBlank(c) == c = " "
RECURSIVE TrimStart(_)
TrimStart(s) == IF s # <<>> /\ IsBlank(Head(s)) THEN TrimStart(Tail(s)) ELSE s
RECURSIVE TrimEnd(_)
TrimEnd(s) ==
  IF s # <<>> /\ IsBlank(s[Len(s)]) THEN TrimEnd(SubSeq(s, 1, Len(s) - 1)) ELSE s
\* String.prototype.trim
Trim(s) == TrimEnd(TrimStart(s))
\* process.env.X?.trim()
TrimOpt(v) == IF IsSome(v) THEN Some(Trim(Get(v))) ELSE None
\* process.env.X?.trim() || fallback
TrimOr(v, fallback) ==
  IF IsSome(v) /\ Trim(Get(v)) # <<>> THEN Trim(Get(v)) ELSE fallback
\* process.env.X?.trim() || undefined
TrimOrUndefined(v) ==
  IF IsSome(v) /\ Trim(Get(v)) # <<>> THEN Some(Trim(Get(v))) ELSE None

DigitChars == {"0", "1", "2", "3", "4", "5", "6", "7", "8", "9"}
DigitValue(c) ==
  CASE c = "0" -> 0 [] c = "1" -> 1 [] c = "2" -> 2 [] c = "3" -> 3 [] c = "4" -> 4
    [] c = "5" -> 5 [] c = "6" -> 6 [] c = "7" -> 7 [] c = "8" -> 8 [] c = "9" -> 9
RECURSIVE DigitPrefix(_, _)
\* The value of the longest run of leading digits, from the accumulator acc.
DigitPrefix(s, acc) ==
  IF s # <<>> /\ Head(s) \in DigitChars
    THEN DigitPrefix(Tail(s), 10 * acc + DigitValue(Head(s)))
    ELSE acc
\* Number.parseInt(value, 10): leading blanks are skipped, then an optional
\* sign and the leading digits are read; no digit gives NaN (None).
NumberParseInt(s) ==
  LET t == TrimStart(s)
      neg == t # <<>> /\ Head(t) = "-"
      body == IF t # <<>> /\ Head(t) \in {"-", "+"} THEN Tail(t) ELSE t IN
  IF body = <<>> \/ Head(body) \notin DigitChars THEN None
  ELSE Some(IF neg THEN 0 - DigitPrefix(body, 0) ELSE DigitPrefix(body, 0))

parseIntEnv(value, fallback) ==
  IF ~IsSome(value) \/ Get(value) = <<>> THEN fallback
  ELSE LET parsed == NumberParseInt(Get(value)) IN
       IF IsSome(parsed) /\ Get(parsed) > 0 THEN Get(parsed) ELSE fallback

\* String.prototype.toLowerCase, on the symbols the model uses.
LowerChar(c) == IF c \in {"TRUE", "True"} THEN "true"
                ELSE IF c \in {"FALSE", "False"} THEN "false" ELSE c
ToLowerCase(s) == [i \in 1..Len(s) |-> LowerChar(s[i])]
parseBool(value, fallback) ==
  IF ~IsSome(value) \/ Get(value) = <<>> THEN fallback
  ELSE ToLowerCase(Get(value)) = <<"true">>

-----------------------------------------------------------------------------
(* Constants of the module (index.ts:28-38) *)

CLAUDE_CODE == <<"claude_code">>
CODEX_CLI == <<"codex_cli">>
FACTORY_DROID == <<"factory_droid">>
DEFAULT_TARGET_AGENT == CLAUDE_CODE
VALID_TARGET_AGENTS == {CLAUDE_CODE, CODEX_CLI, FACTORY_DROID}
DEFAULT_CLAUDE_MODEL == <<"sonnet">>
DEFAULT_CODEX_MODEL == <<"gpt-5-codex">>
DEFAULT_FACTORY_COMMAND == <<"factory">>
DEFAULT_FACTORY_MODEL == <<"factory-droid">>
DEFAULT_MAX_RETRIES == 3
DEFAULT_RETRY_DELAY_MS == 2000
DEFAULT_CACHE_TTL_MS == 300000
DEFAULT_CACHE_MAX_ENTRIES == 50
DEFAULT_CONFIG_PATH == <<".taskmaster/interpeer.config.json">>

-----------------------------------------------------------------------------
(* loadConfig *)

\* process.env, the INTERPEER_ variables the loader reads.
EmptyEnv ==
  [DEFAULT_AGENT |-> None, DEFAULT_MODEL |-> None, CONFIG_PATH |-> None,
   CLAUDE_MODEL |-> None, CODEX_MODEL |-> None, FACTORY_MODEL |-> None,
   CLAUDE_COMMAND |-> None, CODEX_COMMAND |-> None, FACTORY_COMMAND |-> None,
   MAX_RETRIES |-> None, RETRY_DELAY_MS |-> None,
   CLAUDE_MAX_RETRIES |-> None, CLAUDE_RETRY_DELAY_MS |-> None,
   CODEX_MAX_RETRIES |-> None, CODEX_RETRY_DELAY_MS |-> None,
   FACTORY_MAX_RETRIES |-> None, FACTORY_RETRY_DELAY_MS |-> None,
   LOGGING_ENABLED |-> None, LOGGING_REDACT_CONTENT |-> None,
   CACHE_ENABLED |-> None, CACHE_TTL_MS |-> None, CACHE_MAX_ENTRIES |-> None]

\* The parsed JSON file: every key is optional.
NoAgentPatch == [model |-> None, command |-> None, retry |-> None]
NoRetryPatch == [maxAttempts |-> None, baseDelayMs |-> None]
NoAgentsPatch == [claude |-> None, codex |-> None, factory |-> None, custom |-> <<>>]
NoCachePatch == [enabled |-> None, ttlMs |-> None, maxEntries |-> None]
NoLoggingPatch == [enabled |-> None, redactContent |-> None]
\* defaults.model: None when the key is absent, Some(None) for null.
NoDefaultsPatch == [agent |-> None, model |-> None]
EmptyFile == [agents |-> None, logging |-> None, cache |-> None, defaults |-> None]

\* accessSync + readFileSync + JSON.parse inside try/catch (index.ts:843-852):
\* a missing or malformed file leaves fileOverrides null.
MissingFile == [kind |-> "missing"]
MalformedFile == [kind |-> "malformed"]
JsonFile(json) == [kind |-> "json", json |-> json]
ReadOverrides(files, path) ==
  IF path \in DOMAIN files /\ files[path].kind = "json" THEN Some(files[path].json) ELSE None

\* retry: { ...base.retry, ...patch.retry }
MergeRetry(base, patch) ==
  IF ~IsSome(patch) THEN base
  ELSE [maxAttempts |-> OrElse(Get(patch).maxAttempts, base.maxAttempts),
        baseDelayMs |-> OrElse(Get(patch).baseDelayMs, base.baseDelayMs)]

\* config.agents.x = { ...config.agents.x, ...file.agents.x, retry: {...} }
MergeAgent(base, patch) ==
  IF ~IsSome(patch) THEN base
  ELSE [model |-> OrElse(Get(patch).model, base.model),
        command |-> IF IsSome(Get(patch).command) THEN Get(patch).command
                    ELSE base.command,
        retry |-> MergeRetry(base.retry, Get(patch).retry)]

\* setDefaultAgentOverride / setDefaultModelOverride (index.ts:425-431)
setDefaultModelOverride(model) == TrimOrUndefined(model)

\* defaultTargetAgent / defaultModelOverride as the module's load sets them
\* (index.ts:47-55).
InitialDefaultAgent(penv) ==
  LET envValue == TrimOpt(penv.DEFAULT_AGENT) IN
  IF IsSome(envValue) /\ Get(envValue) # <<>> /\ Get(envValue) \in VALID_TARGET_AGENTS
    THEN Get(envValue) ELSE DEFAULT_TARGET_AGENT
InitialDefaultModel(penv) == TrimOrUndefined(penv.DEFAULT_MODEL)

\* The configuration built from the environment alone (index.ts:865-947).
EnvConfig(penv, defaultAgent, defaultModel) ==
  LET baseRetry ==
        [maxAttempts |-> parseIntEnv(penv.MAX_RETRIES, DEFAULT_MAX_RETRIES),
         baseDelayMs |-> parseIntEnv(penv.RETRY_DELAY_MS, DEFAULT_RETRY_DELAY_MS)]
      Retry(maxVar, delayVar) ==
        [maxAttempts |-> parseIntEnv(maxVar, baseRetry.maxAttempts),
         baseDelayMs |-> parseIntEnv(delayVar, baseRetry.baseDelayMs)] IN
  [agents |->
     [claude |-> [model |-> TrimOr(penv.CLAUDE_MODEL, DEFAULT_CLAUDE_MODEL),
                  command |-> TrimOpt(penv.CLAUDE_COMMAND),
                  retry |-> Retry(penv.CLAUDE_MAX_RETRIES, penv.CLAUDE_RETRY_DELAY_MS)],
      codex |-> [model |-> TrimOr(penv.CODEX_MODEL, DEFAULT_CODEX_MODEL),
                 command |-> Some(TrimOr(penv.CODEX_COMMAND, <<"codex">>)),
                 retry |-> Retry(penv.CODEX_MAX_RETRIES, penv.CODEX_RETRY_DELAY_MS)],
      factory |-> [model |-> TrimOr(penv.FACTORY_MODEL, DEFAULT_FACTORY_MODEL),
                   command |-> Some(TrimOr(penv.FACTORY_COMMAND, DEFAULT_FACTORY_COMMAND)),
                   retry |-> Retry(penv.FACTORY_MAX_RETRIES, penv.FACTORY_RETRY_DELAY_MS)],
      custom |-> <<>>],
   logging |-> [enabled |-> parseBool(penv.LOGGING_ENABLED, TRUE),
                redactContent |-> parseBool(penv.LOGGING_REDACT_CONTENT, TRUE)],
   cache |-> [enabled |-> parseBool(penv.CACHE_ENABLED, TRUE),
              ttlMs |-> parseIntEnv(penv.CACHE_TTL_MS, DEFAULT_CACHE_TTL_MS),
              maxEntries |-> parseIntEnv(penv.CACHE_MAX_ENTRIES, DEFAULT_CACHE_MAX_ENTRIES)],
   defaults |-> [agent |-> defaultAgent, model |-> defaultModel]]

\* if (fileOverrides) { ... } (index.ts:949-1008)
ApplyFile(config, file) ==
  LET agents == file.agents
      A(name) == IF IsSome(agents) THEN Get(agents)[name] ELSE None IN
  [config EXCEPT
     !.agents = [claude |-> MergeAgent(config.agents.claude, A("claude")),
                 codex |-> MergeAgent(config.agents.codex, A("codex")),
                 factory |-> MergeAgent(config.agents.factory, A("factory")),
                 custom |-> IF IsSome(agents) THEN Get(agents).custom ELSE <<>>],
     !.logging = IF ~IsSome(file.logging) THEN @
                 ELSE [enabled |-> OrElse(Get(file.logging).enabled, @.enabled),
                       redactContent |->
                          OrElse(Get(file.logging).redactContent, @.redactContent)],
     !.cache = IF ~IsSome(file.cache) THEN @
               ELSE [enabled |-> OrElse(Get(file.cache).enabled, @.enabled),
                     ttlMs |-> OrElse(Get(file.cache).ttlMs, @.ttlMs),
                     maxEntries |-> OrElse(Get(file.cache).maxEntries, @.maxEntries)]]

\* loadConfig(projectRoot): the configuration it returns and the two
\* process-wide defaults as it leaves them.
loadConfig(penv, files, defaultAgent, defaultModel) ==
  LET configPath == TrimOr(penv.CONFIG_PATH, DEFAULT_CONFIG_PATH)
      fileOverrides == ReadOverrides(files, configPath)
      fd == IF IsSome(fileOverrides) THEN Get(fileOverrides).defaults ELSE None
      agent1 == IF IsSome(fd) /\ IsSome(Get(fd).agent) /\ Get(Get(fd).agent) # <<>>
                  THEN Get(Get(fd).agent) ELSE defaultAgent
      model1 == IF IsSome(fd) /\ IsSome(Get(fd).model)
                  THEN setDefaultModelOverride(Get(Get(fd).model)) ELSE defaultModel
      config == EnvConfig(penv, agent1, model1) IN
  [config |-> IF IsSome(fileOverrides) THEN ApplyFile(config, Get(fileOverrides))
              ELSE config,
   defaultTargetAgent |-> agent1,
   defaultModelOverride |-> model1,
   warned |-> ~IsSome(fileOverrides) /\ IsSome(penv.CONFIG_PATH)
              /\ Get(penv.CONFIG_PATH) # <<>>]

-----------------------------------------------------------------------------
(* withRetries / sleep *)

RtIdle == [pc |-> "idle", attempt |-> 0, delay |-> 0,
           maxAttempts |-> 0, baseDelayMs |-> 0, value |-> None, error |-> None]

\* let attempt = 0; let delay = retry.baseDelayMs; then the first pass of the
\* loop up to its await: attempt += 1; fn() is called.
withRetriesEnter(retry) ==
  [pc |-> "fn", attempt |-> 0 + 1, delay |-> retry.baseDelayMs,
   maxAttempts |-> retry.maxAttempts, baseDelayMs |-> retry.baseDelayMs,
   value |-> None, error |-> None]

\* return await fn(): fn's promise fulfilled.
withRetriesResolve(r, value) ==
  [r EXCEPT !.pc = "returned", !.value = Some(value)]

\* A catch block that allows one attempt too many.
withRetriesCatch_OffByOne(r, error) ==
  IF r.attempt > r.maxAttempts
    THEN [r EXCEPT !.pc = "thrown", !.error = Some(error)]
    ELSE [r EXCEPT !.pc = "sleep"]

\* A catch block that wraps the error it rethrows.
withRetriesCatch_Wrap(r, error) ==
  IF r.attempt >= r.maxAttempts
    THEN [r EXCEPT !.pc = "thrown",
                   !.error = Some([error EXCEPT !.label = "retries exhausted"])]
    ELSE [r EXCEPT !.pc = "sleep"]

\* catch (error): rethrow at the last attempt, else start sleep(delay).
withRetriesCatch(r, error) ==
  IF r.attempt >= r.maxAttempts
    THEN [r EXCEPT !.pc = "thrown", !.error = Some(error)]
    ELSE [r EXCEPT !.pc = "sleep"]

\* A backoff that never grows.
withRetriesWake_NoDoubling(r) ==
  [r EXCEPT !.attempt = r.attempt + 1, !.pc = "fn"]

\* The timer fired: delay *= 2; next pass of the loop: attempt += 1; fn().
withRetriesWake(r) ==
  [r EXCEPT !.delay = r.delay * 2, !.attempt = r.attempt + 1, !.pc = "fn"]

-----------------------------------------------------------------------------
(* prepareInput *)

TextFile(data) == [kind |-> "text", data |-> data]

\* The file-labeled block of one resource (index.ts:748-750): the label
\* line, a code fence, the data and a closing fence, joined by newlines.
NL == "<newline>"
FENCE == "<code fence>"
ResourceSection(relativePath, data) ==
  <<"# File: ">> \o relativePath \o <<NL, FENCE, NL>> \o data \o <<NL, FENCE>>

RECURSIVE JoinNonEmpty(_)
\* parts.filter(Boolean).join of two newlines
JoinNonEmpty(parts) ==
  IF parts = <<>> THEN <<>>
  ELSE LET rest == JoinNonEmpty(Tail(parts)) IN
       IF Head(parts) = <<>> THEN rest
       ELSE IF rest = <<>> THEN Head(parts)
       ELSE Head(parts) \o <<NL, NL>> \o rest

Readable(files, path) == path \in DOMAIN files /\ files[path].kind # "missing"
FileData(files, path) == IF files[path].kind = "text" THEN files[path].data ELSE <<"{}">>

\* A resource expansion that leaves out what it cannot read.
prepareInput_SkipUnreadable(input, files) ==
  LET paths == OrElse(input.resource_paths, <<>>) IN
  IF paths = <<>> THEN [ok |-> TRUE, input |-> input, failed |-> <<>>, reads |-> <<>>]
  ELSE [ok |-> TRUE, reads |-> paths,
        input |-> [input EXCEPT !.content =
           JoinNonEmpty(<<input.content>> \o
             [i \in 1..Len(paths) |->
                IF Readable(files, paths[i])
                  THEN ResourceSection(paths[i], FileData(files, paths[i]))
                  ELSE <<>>])],
        failed |-> <<>>]

\* The paths are read in order; the first unreadable one throws.
prepareInput(input, files) ==
  LET paths == OrElse(input.resource_paths, <<>>) IN
  IF paths = <<>> THEN [ok |-> TRUE, input |-> input, failed |-> <<>>, reads |-> <<>>]
  ELSE IF \E i \in 1..Len(paths) : ~Readable(files, paths[i])
    THEN LET first == CHOOSE i \in 1..Len(paths) :
                        /\ ~Readable(files, paths[i])
                        /\ \A j \in 1..(i - 1) : Readable(files, paths[j]) IN
         [ok |-> FALSE, input |-> input, failed |-> paths[first],
          reads |-> SubSeq(paths, 1, first)]
    ELSE [ok |-> TRUE, reads |-> paths,
          input |-> [input EXCEPT !.content =
             JoinNonEmpty(<<input.content>> \o
               [i \in 1..Len(paths) |-> ResourceSection(paths[i], FileData(files, paths[i]))])],
          failed |-> <<>>]

-----------------------------------------------------------------------------
(* buildPromptBundle *)

\* REVIEW_TEMPLATES (index.ts:136-203): the own properties of the object.
REVIEW_TEMPLATES ==
  [general |-> [id |-> "general", title |-> "General Review",
                description |-> "general.description",
                guidance |-> <<"general.guidance[0]", "general.guidance[1]",
                               "general.guidance[2]">>],
   code |-> [id |-> "code", title |-> "Code Review",
             description |-> "code.description",
             guidance |-> <<"code.guidance[0]", "code.guidance[1]", "code.guidance[2]">>],
   design |-> [id |-> "design", title |-> "Design Review",
               description |-> "design.description",
               guidance |-> <<"design.guidance[0]", "design.guidance[1]",
                              "design.guidance[2]">>],
   architecture |-> [id |-> "architecture", title |-> "Architecture Review",
                     description |-> "architecture.description",
                     guidance |-> <<"architecture.guidance[0]", "architecture.guidance[1]",
                                    "architecture.guidance[2]">>],
   security_audit |-> [id |-> "security_audit", title |-> "Security Audit",
                       description |-> "security_audit.description",
                       guidance |-> <<"security_audit.guidance[0]",
                                      "security_audit.guidance[1]",
                                      "security_audit.guidance[2]">>],
   brainstorm_alternatives |->
     [id |-> "brainstorm_alternatives", title |-> "Brainstorm Alternatives",
      description |-> "brainstorm_alternatives.description",
      guidance |-> <<"brainstorm_alternatives.guidance[0]",
                     "brainstorm_alternatives.guidance[1]",
                     "brainstorm_alternatives.guidance[2]">>]]

\* REVIEW_TEMPLATES is an object literal: a property it does not own is looked
\* up on Object.prototype, whose members are functions or objects without
\* title, description or guidance.
ObjectPrototypeKeys ==
  {"constructor", "toString", "toLocaleString", "valueOf", "hasOwnProperty",
   "isPrototypeOf", "propertyIsEnumerable", "__proto__"}
Inherited == [inherited |-> TRUE]

\* REVIEW_TEMPLATES[templateId]
TemplateProperty(templateId) ==
  IF templateId \in DOMAIN REVIEW_TEMPLATES THEN Some(REVIEW_TEMPLATES[templateId])
  ELSE IF templateId \in ObjectPrototypeKeys THEN Some(Inherited)
  ELSE None

RECURSIVE JoinWith(_, _)
\* parts.join(separator)
JoinWith(parts, separator) ==
  IF parts = <<>> THEN <<>>
  ELSE IF Len(parts) = 1 THEN Head(parts)
  ELSE Head(parts) \o <<separator>> \o JoinWith(Tail(parts), separator)

Bullets(items) == [i \in 1..Len(items) |-> <<"- ", items[i]>>]

\* A prompt builder whose system text carries the process-wide default model.
buildPromptBundle_ReadsDefault(input) ==
  [ok |-> TRUE,
   system |-> <<"baseSystem", defaultModelOverride>>,
   user |-> <<"Content to review:">> \o Trim(input.content)]

\* buildPromptBundle(input): {system, user}, or the TypeError thrown by
\* template.guidance.map when the looked-up template has no guidance.
buildPromptBundle(input) ==
  LET templateId == OrElse(input.review_type, "general")
      template == OrElse(TemplateProperty(templateId), REVIEW_TEMPLATES.general)
      focus == OrElse(input.focus, <<>>)
      focusSection ==
        IF focus # <<>>
          THEN JoinWith(<< <<"Primary focus areas:">> >> \o Bullets(focus)
                          \o << <<>>, <<"Address these ahead of other observations">> >>,
                        NL)
          ELSE <<"Primary focus areas: General review">>
      baseSystem == <<"baseSystem">>
      templateGuidance ==
        JoinWith(<< <<"Review profile: ", template.title, " - ", template.description>> >>
                   \o Bullets(template.guidance), NL)
      timeBudgetGuidance ==
        IF IsSome(input.time_budget_seconds) /\ Get(input.time_budget_seconds) # 0
          THEN <<"Aim to deliver within approximately ",
                 Get(input.time_budget_seconds), " seconds">>
          ELSE <<"Be concise but thorough">>
      structuredInstructions ==
        IF input.style = Some("freeform")
          THEN <<"Provide a concise narrative assessment">>
          ELSE <<"Respond using markdown sections with headings">>
  IN
  IF "guidance" \notin DOMAIN template
    THEN [ok |-> FALSE, error |-> "TypeError"]
    ELSE [ok |-> TRUE,
          system |-> JoinWith(<<baseSystem, templateGuidance, timeBudgetGuidance,
                                structuredInstructions>>, " "),
          user |-> JoinWith(<<focusSection, <<>>, <<"Content to review:">>, <<FENCE>>,
                              Trim(input.content), <<FENCE>>>>, NL)]

\* buildCrossAgentPrompt(input): the single prompt given to the factory command.
buildCrossAgentPrompt(input) ==
  LET bundle == buildPromptBundle(input) IN
  IF ~bundle.ok THEN bundle
  ELSE [ok |-> TRUE,
        prompt |-> JoinWith(<< <<"Provide a second-opinion review following the instructions below.">>,
                               <<>>, bundle.system, <<>>, bundle.user, <<>>,
                               <<"Return your findings now.">> >>, NL)]

-----------------------------------------------------------------------------
(* routeReview and the three adapters *)

\* An ensureConfig that loads the configuration on every call.
ensureConfig_Reload(memo, penv, files, defaultAgent, defaultModel) ==
  LET r == loadConfig(penv, files, defaultAgent, defaultModel) IN
  [config |-> r.config, defaultTargetAgent |-> r.defaultTargetAgent,
   defaultModelOverride |-> r.defaultModelOverride]

\* ensureConfig(): the memoized configuration, loading it when there is none.
ensureConfig(memo, penv, files, defaultAgent, defaultModel) ==
  IF IsSome(memo)
    THEN [config |-> Get(memo), defaultTargetAgent |-> defaultAgent,
          defaultModelOverride |-> defaultModel]
    ELSE LET r == loadConfig(penv, files, defaultAgent, defaultModel) IN
         [config |-> r.config, defaultTargetAgent |-> r.defaultTargetAgent,
          defaultModelOverride |-> r.defaultModelOverride]

\* The switch of routeReview: which adapter serves the agent.
AdapterOf(agent) ==
  CASE agent = CLAUDE_CODE -> "claude"
    [] agent = CODEX_CLI -> "codex"
    [] agent = FACTORY_DROID -> "factory"
    [] OTHER -> "unsupported"

\* The command ensure<X>CliAvailable probes (index.ts:605-624).
ProbeCommand(adapter, config, penv) ==
  LET configured == config.agents[adapter].command
      fromEnv == TrimOpt(CASE adapter = "claude" -> penv.CLAUDE_COMMAND
                           [] adapter = "codex" -> penv.CODEX_COMMAND
                           [] OTHER -> penv.FACTORY_COMMAND)
      builtin == CASE adapter = "claude" -> <<"claude">>
                   [] adapter = "codex" -> <<"codex">>
                   [] OTHER -> DEFAULT_FACTORY_COMMAND IN
  IF IsSome(configured) THEN Get(configured)
  ELSE IF IsSome(fromEnv) THEN Get(fromEnv) ELSE builtin

EmptyResponse(adapter) ==
  CASE adapter = "claude" -> <<"Claude Code returned an empty response.">>
    [] adapter = "codex" -> <<"Codex CLI returned an empty response.">>
    [] OTHER -> <<"Factory CLI returned an empty response.">>

\* An adapter that passes on whatever text its operation returned.
AdapterResult_KeepEmpty(adapter, agent, modelId, value) ==
  [agent |-> agent, model |-> modelId,
   text |-> Trim(value.text),
   usage |-> IF adapter = "factory" THEN None ELSE value.usage,
   cacheStatus |-> None]

\* The result object an adapter builds from what its operation returned.
AdapterResult(adapter, agent, modelId, value) ==
  [agent |-> agent, model |-> modelId,
   text |-> IF Trim(value.text) # <<>> THEN Trim(value.text) ELSE EmptyResponse(adapter),
   usage |-> IF adapter = "factory" THEN None ELSE value.usage,
   cacheStatus |-> None]

\* A router that never consults the cache.
routeLookup_Bypass(cache, config, key, t) ==
  [cache |-> cache, ret |-> None]

\* The cache read of routeReview (index.ts:445-451).
routeLookup(cache, config, key, t) ==
  IF config.cache.enabled THEN getCacheEntry(cache, key, config.cache.ttlMs, t)
  ELSE [cache |-> cache, ret |-> None]

\* A router that stores every fresh result, whatever the cache policy says.
routeStore_Always(cache, config, key, result, t) ==
  storeCacheEntry(cache, key, result, config.cache.maxEntries, t)

\* The cache write of routeReview (index.ts:470-472).
routeStore(cache, config, key, result, t) ==
  IF config.cache.enabled
    THEN storeCacheEntry(cache, key, result, config.cache.maxEntries, t)
    ELSE cache

-----------------------------------------------------------------------------
(* The cache driven through its two functions (as __testUtils exposes them) *)

InA == [NoInput EXCEPT !.content = <<"x=1">>, !.review_type = Some("code")]
InB == [NoInput EXCEPT !.content = <<"hello">>, !.focus = Some(<<"testing">>),
                       !.style = Some("structured")]

CacheKeys ==
  { buildCacheKey(InA, CODEX_CLI, None),
    buildCacheKey(InA, CLAUDE_CODE, None),
    buildCacheKey(InB, CLAUDE_CODE, None) }

PlainResult(text) ==
  [agent |-> CLAUDE_CODE, model |-> DEFAULT_CLAUDE_MODEL, text |-> text,
   usage |-> None, cacheStatus |-> None]

PlainResults == { PlainResult(<<"review text">>), PlainResult(<<"other text">>) }

CapValues == 1..MaxCap
TtlValues == {-1, 0, 1}

\* Module state of index.ts:42-46 before any bootstrapServer call; connected
\* and registered count the transports connected and the registerTool calls.
NoBoot == [started |-> FALSE, server |-> FALSE, projectRootPath |-> <<"__dirname">>,
           registered |-> 0, connected |-> 0, calls |-> <<>>]
NoOp == [op |-> "none", key |-> None, arg |-> 0, ret |-> None,
         wasPresent |-> FALSE, age |-> 0]
EmptyRun == [valid |-> TRUE, cap |-> 0, keys |-> <<>>]
NoRun == [valid |-> FALSE, cap |-> 0, keys |-> <<>>]
InSeq(x, s) == \E i \in 1..Len(s) : s[i] = x

\* What the call sees of the cache before it runs.
Observe(kind, key, arg, ret) ==
  [op |-> kind, key |-> Some(key), arg |-> arg, ret |-> ret,
   wasPresent |-> MapHas(resultCache, key),
   age |-> IF MapHas(resultCache, key)
             THEN now - Get(MapGet(resultCache, key)).timestamp ELSE 0]

CUSTOM_CONFIG_PATH == <<"custom.json">>
ConfigPaths == {DEFAULT_CONFIG_PATH, CUSTOM_CONFIG_PATH}
NoFiles == [p \in ConfigPaths |-> MissingFile]

OpIdle == [permanent |-> FALSE, fails |-> 0, value |-> <<>>, calls |-> 0,
           sleeps |-> <<>>, raised |-> <<>>]

CallIdle == [pc |-> "idle", input |-> NoInput, agent |-> <<>>, key |-> <<>>,
             modelOverride |-> None, prepared |-> None, prompt |-> None]
NoResp == [kind |-> "none"]
NoneChecked == [claude |-> FALSE, codex |-> FALSE, factory |-> FALSE]
AllCommands == {<<"claude">>, <<"codex">>, <<"factory">>}
NoObs == [prev |-> None, startTime |-> 0, cacheBefore |-> <<>>,
          checkedBefore |-> NoneChecked, installedBefore |-> {},
          defaultAgent |-> <<>>, defaultModel |-> None]
NoTrace == [steps |-> <<>>, reads |-> <<>>]
NoReply == [kind |-> "none"]

\* The calls that can be in flight side by side, and a call that has not begun.
CallIds == {"first", "second"}
FlightIdle == [pc |-> "idle", input |-> NoInput, agent |-> <<>>, prepared |-> None,
               key |-> <<>>, modelOverride |-> None, rt |-> RtIdle, invoked |-> 0,
               out |-> NoResp]
\* produced and probed are history: the results the adapters have returned,
\* by key, and the agents whose probe has succeeded.
NoFlight == [calls |-> [c \in CallIds |-> FlightIdle], produced |-> {}, probed |-> {}]

InitCache ==
  /\ resultCache = <<>>
  /\ now = 0
  /\ heap = <<>> /\ boot = NoBoot /\ flight = NoFlight
  /\ callerResult = None
  /\ held = None
  /\ lastOp = NoOp
  /\ run = EmptyRun
  /\ snap = <<>>
  /\ rt = RtIdle
  /\ op = OpIdle
  /\ env = EmptyEnv
  /\ fsys = NoFiles
  /\ defaultTargetAgent = InitialDefaultAgent(EmptyEnv)
  /\ defaultModelOverride = InitialDefaultModel(EmptyEnv)
  /\ runtimeConfig = None
  /\ loaded = None
  /\ call = CallIdle
  /\ resp = NoResp
  /\ checked = NoneChecked
  /\ installed = AllCommands
  /\ obs = NoObs
  /\ prev = None
  /\ trace = NoTrace
  /\ reply = NoReply

StoreCacheEntry(key, result, maxEntries) ==
  /\ resultCache' = storeCacheEntry(resultCache, key, result, maxEntries, now)
  /\ lastOp' = Observe("store", key, maxEntries, None)
  /\ run' = IF /\ run.valid
               /\ run.keys = <<>> \/ run.cap = maxEntries
               /\ ~InSeq(key, run.keys)
               /\ Len(run.keys) <= maxEntries
             THEN [valid |-> TRUE, cap |-> maxEntries, keys |-> Append(run.keys, key)]
             ELSE NoRun
  /\ UNCHANGED <<now, heap, flight, boot, callerResult, held, snap, rt, op>>
  /\ UNCHANGED <<configVars, routeVars>>

GetCacheEntry(key, ttlMs) ==
  LET r == getCacheEntry(resultCache, key, ttlMs, now) IN
  /\ resultCache' = r.cache
  /\ lastOp' = Observe("get", key, ttlMs, r.ret)
  /\ run' = IF r.cache = resultCache THEN run ELSE NoRun
  /\ UNCHANGED <<now, heap, flight, boot, callerResult, held, snap, rt, op>>
  /\ UNCHANGED <<configVars, routeVars>>

ClearCache ==
  /\ resultCache' = <<>>
  /\ lastOp' = NoOp
  /\ run' = EmptyRun
  /\ UNCHANGED <<now, heap, flight, boot, callerResult, held, snap, rt, op>>
  /\ UNCHANGED <<configVars, routeVars>>

Tick ==
  /\ now < MaxTime
  /\ now' = now + 1
  /\ lastOp' = NoOp
  /\ UNCHANGED <<resultCache, heap, flight, boot, callerResult, held, run, snap, rt, op>>
  /\ UNCHANGED <<configVars, routeVars>>

NextCache ==
  \/ \E k \in CacheKeys, r \in PlainResults, c \in CapValues : StoreCacheEntry(k, r, c)
  \/ \E k \in CacheKeys, ttl \in TtlValues : GetCacheEntry(k, ttl)
  \/ ClearCache
  \/ Tick

SpecCache == InitCache /\ [][NextCache]_vars

-----------------------------------------------------------------------------
\* C2: after every storeCacheEntry(key, result, maxEntries) the cache holds at
\* most maxEntries entries; and maxEntries + 1 distinct keys inserted into an
\* empty cache leave exactly maxEntries entries, all but the first inserted,
\* in insertion order.
C2_Capacity ==
  /\ lastOp.op = "store" => Len(resultCache) <= lastOp.arg
  /\ (run.valid /\ Len(run.keys) = run.cap + 1) =>
        /\ Len(resultCache) = run.cap
        /\ MapKeys(resultCache) = Tail(run.keys)

C2_Witness ==
  /\ lastOp.op = "store"
  /\ run.valid /\ run.cap = MaxCap /\ Len(run.keys) = MaxCap + 1
  /\ ~MapHas(resultCache, run.keys[1])

\* C3: a store for a key that is still present puts that key at the freshest
\* position of the eviction order (the last one capacity eviction removes).
C3_ReinsertIsFreshest ==
  (lastOp.op = "store" /\ lastOp.wasPresent /\ resultCache # <<>>) =>
     resultCache[Len(resultCache)].key = Get(lastOp.key)

\* C4: getCacheEntry returns the entry exactly when the key is present and
\* now - timestamp <= ttlMs; an expired entry gives null and is removed; an
\* absent key gives null.
C4_GetTtl ==
  lastOp.op = "get" =>
    LET k == Get(lastOp.key) IN
    /\ IsSome(lastOp.ret) <=> (lastOp.wasPresent /\ lastOp.age <= lastOp.arg)
    /\ IsSome(lastOp.ret) => MapGet(resultCache, k) = lastOp.ret
    /\ (lastOp.wasPresent /\ lastOp.age > lastOp.arg) => ~MapHas(resultCache, k)
    /\ ~lastOp.wasPresent => ~MapHas(resultCache, k)

C4_Witness ==
  /\ lastOp.op = "get" /\ lastOp.wasPresent
  /\ lastOp.age = 1 /\ lastOp.arg = 1
  /\ IsSome(lastOp.ret)

-----------------------------------------------------------------------------
(* The cache and the objects its callers hold.  A result object is a record
   (its own top-level fields) whose usage field is a reference into heap;
   the object spread copies the fields, so it copies the reference. *)

AliasKeys == { buildCacheKey(InA, CODEX_CLI, None),
               buildCacheKey(InB, CLAUDE_CODE, None) }
Texts == { <<"review text">>, <<"other text">> }
TokValues == 0..MaxTok

\* The value of a result object, its usage counters read through.
Deep(obj) ==
  [obj EXCEPT !.usage = IF IsSome(obj.usage) THEN Some(heap[Get(obj.usage)]) ELSE None]

KeepKeys(s, m) == SelectSeq(s, LAMBDA e : MapHas(m, e.key))

\* An adapter hands its caller a fresh result object (index.ts:565-578).
NewResult(text, withUsage, tok) ==
  /\ withUsage => Len(heap) < MaxRef
  /\ heap' = IF withUsage THEN Append(heap, [input_tokens |-> tok]) ELSE heap
  /\ UNCHANGED <<boot, flight>>
  /\ callerResult' = Some([agent |-> CODEX_CLI, model |-> DEFAULT_CODEX_MODEL,
                            text |-> text,
                            usage |-> IF withUsage THEN Some(Len(heap) + 1) ELSE None,
                            cacheStatus |-> None])
  /\ UNCHANGED <<resultCache, now, held, lastOp, run, snap, rt, op>>
  /\ UNCHANGED <<configVars, routeVars>>

AliasStore(key, maxEntries) ==
  /\ IsSome(callerResult)
  /\ resultCache' = storeCacheEntry(resultCache, key, Get(callerResult), maxEntries, now)
  /\ snap' = KeepKeys(MapSet(snap, key,
                 [Deep(Get(callerResult)) EXCEPT !.cacheStatus = None]), resultCache')
  /\ UNCHANGED <<now, heap, flight, boot, callerResult, held, lastOp, run, rt, op>>
  /\ UNCHANGED <<configVars, routeVars>>

AliasGet(key, ttlMs) ==
  LET r == getCacheEntry(resultCache, key, ttlMs, now) IN
  /\ resultCache' = r.cache
  /\ snap' = KeepKeys(snap, r.cache)
  /\ held' = IF IsSome(r.ret) THEN r.ret ELSE held
  /\ UNCHANGED <<now, heap, flight, boot, callerResult, lastOp, run, rt, op>>
  /\ UNCHANGED <<configVars, routeVars>>

\* The caller writes a top-level field of its own result object, as
\* routeReview does with result.cacheStatus (index.ts:468).
MutateCallerTop(text, status) ==
  /\ IsSome(callerResult)
  /\ callerResult' = Some([Get(callerResult) EXCEPT !.text = text, !.cacheStatus = status])
  /\ UNCHANGED <<resultCache, now, heap, flight, boot, held, lastOp, run, snap, rt, op>>
  /\ UNCHANGED <<configVars, routeVars>>

\* The caller writes a counter of its result's usage object.
MutateCallerUsage(tok) ==
  /\ IsSome(callerResult) /\ IsSome(Get(callerResult).usage)
  /\ heap' = [heap EXCEPT ![Get(Get(callerResult).usage)].input_tokens = tok]
  /\ UNCHANGED <<boot, flight>>
  /\ UNCHANGED <<resultCache, now, callerResult, held, lastOp, run, snap, rt, op>>
  /\ UNCHANGED <<configVars, routeVars>>

\* The caller writes a top-level field of an entry it got from getCacheEntry.
MutateHeldTop(text, status) ==
  /\ IsSome(held)
  /\ held' = Some([Get(held) EXCEPT !.agent.text = text, !.agent.cacheStatus = status])
  /\ UNCHANGED <<resultCache, now, heap, flight, boot, callerResult, lastOp, run, snap, rt, op>>
  /\ UNCHANGED <<configVars, routeVars>>

\* The caller writes a usage counter of an entry it got from getCacheEntry.
MutateHeldUsage(tok) ==
  /\ IsSome(held) /\ IsSome(Get(held).agent.usage)
  /\ heap' = [heap EXCEPT ![Get(Get(held).agent.usage)].input_tokens = tok]
  /\ UNCHANGED <<boot, flight>>
  /\ UNCHANGED <<resultCache, now, callerResult, held, lastOp, run, snap, rt, op>>
  /\ UNCHANGED <<configVars, routeVars>>

NextAlias ==
  \/ \E t \in Texts, u \in BOOLEAN, n \in TokValues : NewResult(t, u, n)
  \/ \E k \in AliasKeys, c \in CapValues : AliasStore(k, c)
  \/ \E k \in AliasKeys, ttl \in {-1, 0} : AliasGet(k, ttl)
  \/ \E t \in Texts : MutateCallerTop(t, Some("miss"))
  \/ \E n \in TokValues : MutateCallerUsage(n)
  \/ \E t \in Texts : MutateHeldTop(t, Some("hit"))
  \/ \E n \in TokValues : MutateHeldUsage(n)

SpecAlias == InitCache /\ [][NextAlias]_vars

\* C5: a stored value cannot be changed through the objects handed to or
\* from the cache: what getCacheEntry(key) would return (usage counters
\* included) stays the value that was given to storeCacheEntry.
C5_StoredValueIsolated ==
  \A i \in 1..Len(resultCache) :
     MapGet(snap, resultCache[i].key) = Some(Deep(resultCache[i].value.agent))

-----------------------------------------------------------------------------
(* withRetries driven with an operation that fails a given number of times *)

AttemptValues == -1..MaxAttempts
BaseDelays == {0, 1, 3}

\* The error the n-th invocation of the operation raises.
ErrorOf(n) == [label |-> "operation failed", attempt |-> n]
OpValue == <<"ok">>
\* Does the n-th invocation of the operation fail?
OpFails(o, n) == o.permanent \/ n <= o.fails

\* fn settles: the continuation of withRetries after await fn().
FnSettled(r, o) ==
  IF OpFails(o, o.calls) THEN withRetriesCatch(r, ErrorOf(o.calls))
                         ELSE withRetriesResolve(r, o.value)

WithRetriesCall(maxAttempts, baseDelayMs, permanent, fails) ==
  /\ rt.pc \in {"idle", "returned", "thrown"}
  /\ rt' = withRetriesEnter([maxAttempts |-> maxAttempts, baseDelayMs |-> baseDelayMs])
  /\ op' = [permanent |-> permanent, fails |-> fails, value |-> OpValue,
            calls |-> 1, sleeps |-> <<>>, raised |-> <<>>]
  /\ UNCHANGED <<cacheVars, configVars, routeVars>>

\* What was seen of the run when fn settled: the error raised, the sleep begun.
OpSeen(o, after) ==
  [o EXCEPT
     !.raised = IF OpFails(o, o.calls) THEN Append(@, ErrorOf(o.calls)) ELSE @,
     !.sleeps = IF after.pc = "sleep" THEN Append(@, after.delay) ELSE @]

FnSettles ==
  /\ rt.pc = "fn"
  /\ rt' = FnSettled(rt, op)
  /\ op' = OpSeen(op, rt')
  /\ UNCHANGED <<cacheVars, configVars, routeVars>>

SleepFires ==
  /\ rt.pc = "sleep"
  /\ rt' = withRetriesWake(rt)
  /\ op' = [op EXCEPT !.calls = @ + 1]
  /\ UNCHANGED <<cacheVars, configVars, routeVars>>

InitRetry == InitCache

NextRetry ==
  \/ \E m \in AttemptValues, d \in BaseDelays, f \in 0..MaxFails :
        WithRetriesCall(m, d, FALSE, f)
  \/ \E m \in AttemptValues, d \in BaseDelays : WithRetriesCall(m, d, TRUE, 0)
  \/ FnSettles
  \/ SleepFires

SpecRetry == InitRetry /\ [][NextRetry]_vars

Min(a, b) == IF a < b THEN a ELSE b
Max(a, b) == IF a > b THEN a ELSE b
RECURSIVE Pow2(_)
Pow2(n) == IF n <= 0 THEN 1 ELSE 2 * Pow2(n - 1)

RtDone == rt.pc \in {"returned", "thrown"}

\* C7: withRetries invokes the operation exactly
\* min(f + 1, max(1, maxAttempts)) times, f the number of failures before the
\* operation's first success; the first attempt always runs, the call
\* succeeds with the operation's value when an attempt succeeds, and no
\* attempt follows a success.
C7_InvocationCount ==
  LET limit == Max(1, rt.maxAttempts)
      want == IF op.permanent THEN limit ELSE Min(op.fails + 1, limit) IN
  /\ rt.pc # "idle" => op.calls >= 1 /\ op.calls <= want
  /\ RtDone => op.calls = want
  /\ rt.pc = "returned" <=> (RtDone /\ ~op.permanent /\ op.fails + 1 <= limit)
  /\ rt.pc = "returned" => rt.value = Some(OpValue)

C7_Witness ==
  /\ rt.pc = "returned" /\ rt.maxAttempts = 3
  /\ ~op.permanent /\ op.fails = 2 /\ op.calls = 3

\* C8: when withRetries gives up, the error it throws is the error raised
\* by the last attempt, unchanged; the errors of earlier attempts are not
\* surfaced.
C8_LastErrorVerbatim ==
  rt.pc = "thrown" =>
    /\ Len(op.raised) = op.calls
    /\ rt.error = Some(op.raised[Len(op.raised)])
    /\ \A i \in 1..(Len(op.raised) - 1) : rt.error # Some(op.raised[i])

C8_Witness ==
  /\ rt.pc = "thrown" /\ rt.maxAttempts = 2 /\ op.permanent
  /\ op.calls = 2 /\ rt.error = Some(ErrorOf(2))

\* C9: the delay slept after the k-th failed attempt is
\* baseDelayMs * 2^(k-1); exactly one sleep separates consecutive attempts,
\* and none follows the final failed attempt or a success.
C9_BackoffDelays ==
  rt.pc # "idle" =>
    /\ \A k \in 1..Len(op.sleeps) : op.sleeps[k] = rt.baseDelayMs * Pow2(k - 1)
    /\ Len(op.sleeps) = IF rt.pc = "sleep" THEN op.calls ELSE op.calls - 1
    /\ rt.pc = "sleep" => op.calls < rt.maxAttempts

C9_Witness ==
  /\ rt.pc = "thrown" /\ rt.baseDelayMs = 3 /\ rt.maxAttempts = 3
  /\ op.sleeps = <<3, 6>>

-----------------------------------------------------------------------------
(* loadConfig called under changing environments and config files *)

EnvChoices ==
  { <<"CLAUDE_MODEL", <<"haiku">> >>,
    <<"CLAUDE_MODEL", <<" ", "opus", " ">> >>,
    <<"CACHE_ENABLED", <<"false">> >>,
    <<"CACHE_TTL_MS", <<"1", "0", "0", "0">> >>,
    <<"CACHE_MAX_ENTRIES", <<"5">> >>,
    <<"CLAUDE_MAX_RETRIES", <<"4">> >>,
    <<"MAX_RETRIES", <<"0">> >>,
    <<"CONFIG_PATH", CUSTOM_CONFIG_PATH>> }

FileOpus ==
  [EmptyFile EXCEPT !.agents =
     Some([NoAgentsPatch EXCEPT !.claude =
        Some([NoAgentPatch EXCEPT !.model = Some(<<"opus">>),
               !.retry = Some([NoRetryPatch EXCEPT !.maxAttempts = Some(2)])])])]
FileCache ==
  [EmptyFile EXCEPT !.cache =
     Some([enabled |-> Some(TRUE), ttlMs |-> Some(500), maxEntries |-> Some(7)])]
FileDefaults ==
  [EmptyFile EXCEPT !.defaults =
     Some([agent |-> Some(CODEX_CLI), model |-> Some(Some(<<"gpt-5">>))])]
\* {"agents": {"codex": {"retry": {"maxAttempts": 0}}}, "cache": {"maxEntries": 0}}
FileZero ==
  [EmptyFile EXCEPT
     !.agents = Some([NoAgentsPatch EXCEPT !.codex =
        Some([NoAgentPatch EXCEPT
               !.retry = Some([NoRetryPatch EXCEPT !.maxAttempts = Some(0)])])]),
     !.cache = Some([NoCachePatch EXCEPT !.maxEntries = Some(0)])]
FileChoices ==
  { MissingFile, MalformedFile, JsonFile(EmptyFile), JsonFile(FileOpus),
    JsonFile(FileCache), JsonFile(FileDefaults), JsonFile(FileZero) }

EnvCount(e) == Cardinality({n \in DOMAIN e : IsSome(e[n])})

\* process.env.X = value
SetEnv(name, value) ==
  /\ IsSome(env[name]) \/ EnvCount(env) < MaxEnvVars
  /\ env' = [env EXCEPT ![name] = Some(value)]
  /\ loaded' = None
  /\ UNCHANGED <<fsys, defaultTargetAgent, defaultModelOverride, runtimeConfig>>
  /\ UNCHANGED <<cacheVars, retryVars, routeVars>>

\* delete process.env.X
UnsetEnv(name) ==
  /\ IsSome(env[name])
  /\ env' = [env EXCEPT ![name] = None]
  /\ loaded' = None
  /\ UNCHANGED <<fsys, defaultTargetAgent, defaultModelOverride, runtimeConfig>>
  /\ UNCHANGED <<cacheVars, retryVars, routeVars>>

\* The config file at a path is written, damaged or removed.
WriteConfigFile(path, content) ==
  /\ fsys[path] # content
  /\ fsys' = [fsys EXCEPT ![path] = content]
  /\ loaded' = None
  /\ UNCHANGED <<env, defaultTargetAgent, defaultModelOverride, runtimeConfig>>
  /\ UNCHANGED <<cacheVars, retryVars, routeVars>>

\* __testUtils.loadConfig(projectRoot)
LoadConfig ==
  LET r == loadConfig(env, fsys, defaultTargetAgent, defaultModelOverride) IN
  /\ loaded' = Some(r.config)
  /\ defaultTargetAgent' = r.defaultTargetAgent
  /\ defaultModelOverride' = r.defaultModelOverride
  /\ UNCHANGED <<env, fsys, runtimeConfig>>
  /\ UNCHANGED <<cacheVars, retryVars, routeVars>>

\* setDefaultAgentOverride(agent)
SetDefaultAgent(agent) ==
  /\ defaultTargetAgent' = agent
  /\ loaded' = None
  /\ UNCHANGED <<env, fsys, defaultModelOverride, runtimeConfig>>
  /\ UNCHANGED <<cacheVars, retryVars, routeVars>>

\* setDefaultModelOverride(model)
SetDefaultModel(model) ==
  /\ defaultModelOverride' = setDefaultModelOverride(model)
  /\ loaded' = None
  /\ UNCHANGED <<env, fsys, defaultTargetAgent, runtimeConfig>>
  /\ UNCHANGED <<cacheVars, retryVars, routeVars>>

InitConfig == InitCache

NextConfig ==
  \/ \E c \in EnvChoices : SetEnv(c[1], c[2])
  \/ \E n \in DOMAIN EmptyEnv : UnsetEnv(n)
  \/ \E p \in ConfigPaths, f \in FileChoices : WriteConfigFile(p, f)
  \/ LoadConfig
  \/ \E a \in {CLAUDE_CODE, FACTORY_DROID} : SetDefaultAgent(a)
  \/ \E m \in {None, Some(<<"opus">>)} : SetDefaultModel(m)

SpecConfig == InitConfig /\ [][NextConfig]_vars

\* The file loadConfig reads in the current state, if it parses.
CurrentFile ==
  ReadOverrides(fsys, TrimOr(env.CONFIG_PATH, DEFAULT_CONFIG_PATH))
FileClaude ==
  IF IsSome(CurrentFile) /\ IsSome(Get(CurrentFile).agents)
    THEN Get(Get(CurrentFile).agents).claude ELSE None
FileCacheSection == IF IsSome(CurrentFile) THEN Get(CurrentFile).cache ELSE None
\* Does the environment give a (usable) number / a non-empty string?
EnvGivesInt(v) == IsSome(v) /\ IsSome(NumberParseInt(Get(v))) /\ Get(NumberParseInt(Get(v))) > 0
EnvGivesStr(v) == IsSome(v) /\ Trim(Get(v)) # <<>>

\* C6: every setting given both by the config file and by an environment
\* variable has the environment's value in the configuration loadConfig
\* returns.
C6_EnvWinsOverFile ==
  IsSome(loaded) =>
    LET c == Get(loaded) IN
    /\ (EnvGivesStr(env.CLAUDE_MODEL) /\ IsSome(FileClaude)
          /\ IsSome(Get(FileClaude).model))
         => c.agents.claude.model = Trim(Get(env.CLAUDE_MODEL))
    /\ (EnvGivesInt(env.CLAUDE_MAX_RETRIES) /\ IsSome(FileClaude)
          /\ IsSome(Get(FileClaude).retry)
          /\ IsSome(Get(Get(FileClaude).retry).maxAttempts))
         => c.agents.claude.retry.maxAttempts = Get(NumberParseInt(Get(env.CLAUDE_MAX_RETRIES)))
    /\ (EnvGivesInt(env.CACHE_TTL_MS) /\ IsSome(FileCacheSection)
          /\ IsSome(Get(FileCacheSection).ttlMs))
         => c.cache.ttlMs = Get(NumberParseInt(Get(env.CACHE_TTL_MS)))
    /\ (EnvGivesInt(env.CACHE_MAX_ENTRIES) /\ IsSome(FileCacheSection)
          /\ IsSome(Get(FileCacheSection).maxEntries))
         => c.cache.maxEntries = Get(NumberParseInt(Get(env.CACHE_MAX_ENTRIES)))
    /\ (EnvGivesStr(env.CACHE_ENABLED) /\ IsSome(FileCacheSection)
          /\ IsSome(Get(FileCacheSection).enabled))
         => c.cache.enabled = (ToLowerCase(Get(env.CACHE_ENABLED)) = <<"true">>)

-----------------------------------------------------------------------------
(* routeReview served one call at a time *)

NotesPath == <<"notes.txt">>
ExamplePath == <<"example.txt">>
MissingPath == <<"missing.txt">>
RouteFiles ==
  [p \in ConfigPaths \cup {NotesPath, ExamplePath, MissingPath} |->
     CASE p = NotesPath -> TextFile(<<"notes">>)
       [] p = ExamplePath -> TextFile(<<"sample content">>)
       [] OTHER -> MissingFile]

RouteInputs ==
  { [InA EXCEPT !.target_agent = Some(CODEX_CLI)],
    InB,
    [InB EXCEPT !.target_agent = Some(FACTORY_DROID), !.target_model = Some(<<"opus">>)],
    [InA EXCEPT !.resource_paths = Some(<<ExamplePath, NotesPath>>)],
    [InA EXCEPT !.resource_paths = Some(<<NotesPath, MissingPath>>)] }

\* What the SDK call or the subprocess gives back when it succeeds.
AdapterValues ==
  { [text |-> <<"LGTM">>, usage |-> Some([input_tokens |-> 1])],
    [text |-> <<" ">>, usage |-> None] }

RouteEnv(attempts, cacheOn) ==
  [EmptyEnv EXCEPT
     !.CACHE_TTL_MS = Some(<<"1">>),
     !.CACHE_MAX_ENTRIES = Some(<<"2">>),
     !.MAX_RETRIES = Some(<<ToString(attempts)>>),
     !.RETRY_DELAY_MS = Some(<<"1">>),
     !.CACHE_ENABLED = IF cacheOn THEN None ELSE Some(<<"false">>)]

InitRoute ==
  /\ resultCache = <<>> /\ now = 0 /\ heap = <<>> /\ boot = NoBoot /\ flight = NoFlight /\ callerResult = None
  /\ held = None /\ lastOp = NoOp /\ run = EmptyRun /\ snap = <<>>
  /\ rt = RtIdle /\ op = OpIdle
  /\ \E attempts \in 1..MaxRouteAttempts, cacheOn \in BOOLEAN :
        env = RouteEnv(attempts, cacheOn)
  /\ fsys = RouteFiles
  /\ defaultTargetAgent = InitialDefaultAgent(env)
  /\ defaultModelOverride = InitialDefaultModel(env)
  /\ runtimeConfig = None /\ loaded = None
  /\ call = CallIdle /\ resp = NoResp /\ checked = NoneChecked
  /\ installed = AllCommands \ {DEFAULT_FACTORY_COMMAND}
  /\ obs = NoObs /\ prev = None
  /\ trace = NoTrace /\ reply = NoReply

\* logReviewMetrics: the record sent, if logging is enabled.
Metric(config, agent, model, cacheStatus, usage) ==
  IF ~config.logging.enabled THEN None
  ELSE Some([agent |-> agent, model |-> model, cache |-> cacheStatus,
             usage |-> IF IsSome(usage) /\ ~config.logging.redactContent
                         THEN usage ELSE None])

RouteError(label, detail) == [label |-> label, attempt |-> 0, detail |-> detail]

SameRequest(p, input, agent, modelOverride) ==
  IsSome(p) /\ Get(p).input = input /\ Get(p).agent = agent
            /\ Get(p).modelOverride = modelOverride

\* A handler that answers a failure with an empty successful payload.
toolReply_EmptySuccess(input, outcome) ==
  IF outcome.kind = "result"
    THEN [kind |-> "result",
          content |-> outcome.result.text,
          meta |-> [agent |-> outcome.result.agent, model |-> outcome.result.model,
                    usage |-> outcome.result.usage, cache |-> outcome.result.cacheStatus]]
    ELSE [kind |-> "result",
          content |-> <<>>,
          meta |-> [agent |-> OrElse(input.target_agent, DEFAULT_TARGET_AGENT),
                    model |-> <<>>, usage |-> None, cache |-> Some("miss")]]

\* The answer of the interpeer_review tool handler (index.ts:288-352) to a
\* request, from what routeReview returned or threw.
toolReply(input, outcome) ==
  LET targetAgent == OrElse(input.target_agent, DEFAULT_TARGET_AGENT) IN
  IF outcome.kind = "result"
    THEN [kind |-> "result",
          content |-> outcome.result.text,
          meta |-> [agent |-> outcome.result.agent, model |-> outcome.result.model,
                    usage |-> outcome.result.usage, cache |-> outcome.result.cacheStatus]]
    ELSE [kind |-> "error",
          content |-> <<"Peer review failed: ", outcome.error>>,
          meta |-> [agent |-> targetAgent, error |-> TRUE]]

\* The steps of routeReview up to and including the cache read.
StepsToLookup(config) ==
  <<"ensureConfig", "prepareInput", "buildCacheKey">>
    \o (IF config.cache.enabled THEN <<"getCacheEntry">> ELSE <<>>)

\* What the adapter builds from the prepared request before it enters
\* withRetries (index.ts:499, 551, 588).
AdapterPrompt(adapter, prepared) ==
  IF adapter = "factory" THEN buildCrossAgentPrompt(prepared)
                         ELSE buildPromptBundle(prepared)

\* A router that stores the entry again when it answers from the cache.
routeHit_Restore(begun, reads, config, look) ==
  /\ resp' = [kind |-> "result",
              result |-> [Get(look.ret).agent EXCEPT !.cacheStatus = Some("hit")],
              metric |-> Metric(config, begun.agent, Get(look.ret).agent.model, "hit",
                                Get(look.ret).agent.usage)]
  /\ call' = begun
  /\ resultCache' = storeCacheEntry(look.cache, begun.key, Get(look.ret).agent,
                                    config.cache.maxEntries, now)
  /\ prev' = IF SameRequest(prev, begun.input, begun.agent, begun.modelOverride)
               THEN prev ELSE None
  /\ rt' = RtIdle /\ op' = OpIdle
  /\ trace' = [steps |-> StepsToLookup(config) \o <<"logReviewMetrics">>,
               reads |-> reads]
  /\ UNCHANGED checked

\* A router that returns the stored result as it is held in the cache.
routeHit_Untagged(begun, reads, config, look) ==
  /\ resp' = [kind |-> "result",
              result |-> Get(look.ret).agent,
              metric |-> Metric(config, begun.agent, Get(look.ret).agent.model, "hit",
                                Get(look.ret).agent.usage)]
  /\ call' = begun
  /\ resultCache' = look.cache
  /\ prev' = IF SameRequest(prev, begun.input, begun.agent, begun.modelOverride)
               THEN prev ELSE None
  /\ rt' = RtIdle /\ op' = OpIdle
  /\ trace' = [steps |-> StepsToLookup(config) \o <<"logReviewMetrics">>,
               reads |-> reads]
  /\ UNCHANGED checked

\* routeReview answers from the cache (index.ts:447-450).
routeHit(begun, reads, config, look) ==
  /\ resp' = [kind |-> "result",
              result |-> [Get(look.ret).agent EXCEPT !.cacheStatus = Some("hit")],
              metric |-> Metric(config, begun.agent, Get(look.ret).agent.model, "hit",
                                Get(look.ret).agent.usage)]
  /\ call' = begun
  /\ resultCache' = look.cache
  /\ prev' = IF SameRequest(prev, begun.input, begun.agent, begun.modelOverride)
               THEN prev ELSE None
  /\ rt' = RtIdle /\ op' = OpIdle
  /\ trace' = [steps |-> StepsToLookup(config) \o <<"logReviewMetrics">>,
               reads |-> reads]
  /\ UNCHANGED checked

\* A router that marks the agent as checked although its probe failed.
routeDispatch_MarksChecked(begun, reads, config, look, adapter, probeOk) ==
  IF IsSome(look.ret) THEN routeHit(begun, reads, config, look)
  ELSE IF adapter = "unsupported" THEN
    /\ resp' = [kind |-> "error",
                error |-> RouteError("Unsupported target agent", begun.agent)]
    /\ call' = begun
    /\ resultCache' = look.cache
    /\ prev' = None
    /\ rt' = RtIdle /\ op' = OpIdle
    /\ trace' = [steps |-> StepsToLookup(config), reads |-> reads]
    /\ UNCHANGED checked
  ELSE IF ~probeOk THEN
    /\ resp' = [kind |-> "error", error |-> RouteError("CLI not available", begun.agent)]
    /\ call' = begun
    /\ resultCache' = look.cache
    /\ prev' = None
    /\ rt' = RtIdle /\ op' = OpIdle
    /\ trace' = [steps |-> StepsToLookup(config) \o <<"runCliCheck">>, reads |-> reads]
    /\ checked' = [checked EXCEPT ![adapter] = TRUE]
  ELSE
    /\ checked' = [checked EXCEPT ![adapter] = TRUE]
    /\ rt' = withRetriesEnter(config.agents[adapter].retry)
    /\ op' = [OpIdle EXCEPT !.calls = 1]
    /\ call' = [begun EXCEPT !.pc = "adapter",
                              !.prompt = Some(AdapterPrompt(adapter, Get(begun.prepared)))]
    /\ resp' = NoResp
    /\ resultCache' = look.cache
    /\ prev' = None
    /\ trace' = [steps |-> StepsToLookup(config)
                            \o (IF checked[adapter] THEN <<>> ELSE <<"runCliCheck">>)
                            \o <<"buildPromptBundle", "withRetries", "fn">>,
                 reads |-> reads]

\* routeReview once the cache has been read (index.ts:453-468): the answer
\* from the cache, or the dispatch to the agent's adapter.
routeDispatch(begun, reads, config, look, adapter, probeOk) ==
  IF IsSome(look.ret) THEN routeHit(begun, reads, config, look)
  ELSE IF adapter = "unsupported" THEN
    /\ resp' = [kind |-> "error",
                error |-> RouteError("Unsupported target agent", begun.agent)]
    /\ call' = begun
    /\ resultCache' = look.cache
    /\ prev' = None
    /\ rt' = RtIdle /\ op' = OpIdle
    /\ trace' = [steps |-> StepsToLookup(config), reads |-> reads]
    /\ UNCHANGED checked
  ELSE IF ~probeOk THEN
    /\ resp' = [kind |-> "error", error |-> RouteError("CLI not available", begun.agent)]
    /\ call' = begun
    /\ resultCache' = look.cache
    /\ prev' = None
    /\ rt' = RtIdle /\ op' = OpIdle
    /\ trace' = [steps |-> StepsToLookup(config) \o <<"runCliCheck">>, reads |-> reads]
    /\ UNCHANGED checked
  ELSE
    /\ checked' = [checked EXCEPT ![adapter] = TRUE]
    /\ rt' = withRetriesEnter(config.agents[adapter].retry)
    /\ op' = [OpIdle EXCEPT !.calls = 1]
    /\ call' = [begun EXCEPT !.pc = "adapter",
                              !.prompt = Some(AdapterPrompt(adapter, Get(begun.prepared)))]
    /\ resp' = NoResp
    /\ resultCache' = look.cache
    /\ prev' = None
    /\ trace' = [steps |-> StepsToLookup(config)
                            \o (IF checked[adapter] THEN <<>> ELSE <<"runCliCheck">>)
                            \o <<"buildPromptBundle", "withRetries", "fn">>,
                 reads |-> reads]

\* A router whose adapters probe their command on every call.
routeKeyed_AlwaysProbe(input, prep, config, agent, modelOverride, cacheKey) ==
  routeDispatch([pc |-> "done", input |-> input, agent |-> agent, key |-> cacheKey,
                 modelOverride |-> modelOverride, prepared |-> Some(prep.input),
                 prompt |-> None],
                prep.reads,
                config,
                routeLookup(resultCache, config, cacheKey, now),
                AdapterOf(agent),
                ProbeCommand(AdapterOf(agent), config, env) \in installed)

\* routeReview once the input is prepared and the model chosen
\* (index.ts:444-451): the cache key and the cache read.
routeKeyed(input, prep, config, agent, modelOverride, cacheKey) ==
  routeDispatch([pc |-> "done", input |-> input, agent |-> agent, key |-> cacheKey,
                 modelOverride |-> modelOverride, prepared |-> Some(prep.input),
                 prompt |-> None],
                prep.reads,
                config,
                routeLookup(resultCache, config, cacheKey, now),
                AdapterOf(agent),
                checked[AdapterOf(agent)]
                  \/ ProbeCommand(AdapterOf(agent), config, env) \in installed)

\* A router that builds the cache key from the request as it came in.
routeModel_RawKey(input, config, agent, prep, explicitModel, defaultModelForAgent) ==
  routeKeyed(input, prep, config, agent,
             IF IsSome(explicitModel) THEN explicitModel ELSE defaultModelForAgent,
             buildCacheKey(input, agent,
                           IF IsSome(explicitModel) THEN explicitModel
                                                    ELSE defaultModelForAgent))

\* modelOverride = explicitModel ?? defaultModelForAgent (index.ts:437-443).
routeModel(input, config, agent, prep, explicitModel, defaultModelForAgent) ==
  routeKeyed(input, prep, config, agent,
             IF IsSome(explicitModel) THEN explicitModel ELSE defaultModelForAgent,
             buildCacheKey(prep.input, agent,
                           IF IsSome(explicitModel) THEN explicitModel
                                                    ELSE defaultModelForAgent))

\* routeReview after ensureConfig (index.ts:435-443).
routePrepare(input, config, agent, prep, defaultModelForAgent) ==
  IF ~prep.ok THEN
    /\ resp' = [kind |-> "error",
                error |-> RouteError("Failed to read resource", prep.failed)]
    /\ call' = [pc |-> "done", input |-> input, agent |-> agent, key |-> <<>>,
                modelOverride |-> None, prepared |-> None, prompt |-> None]
    /\ prev' = None
    /\ rt' = RtIdle /\ op' = OpIdle
    /\ trace' = [steps |-> <<"ensureConfig", "prepareInput">>, reads |-> prep.reads]
    /\ UNCHANGED <<resultCache, checked>>
  ELSE routeModel(input, config, agent, prep, TrimOpt(prep.input.target_model),
                  defaultModelForAgent)

\* A router that hands the process-wide default model to every request.
routeConfigured_AlwaysOverride(input, ens) ==
  /\ runtimeConfig' = Some(ens.config)
  /\ defaultTargetAgent' = ens.defaultTargetAgent
  /\ defaultModelOverride' = ens.defaultModelOverride
  /\ routePrepare(input, ens.config,
                  OrElse(input.target_agent, ens.defaultTargetAgent),
                  prepareInput(input, fsys),
                  ens.defaultModelOverride)

routeConfigured(input, ens) ==
  /\ runtimeConfig' = Some(ens.config)
  /\ defaultTargetAgent' = ens.defaultTargetAgent
  /\ defaultModelOverride' = ens.defaultModelOverride
  /\ routePrepare(input, ens.config,
                  OrElse(input.target_agent, ens.defaultTargetAgent),
                  prepareInput(input, fsys),
                  IF ~IsSome(input.target_agent) THEN ens.defaultModelOverride ELSE None)

\* The tool handler has its answer once routeReview has returned or thrown.
Replied(input) ==
  reply' = IF call'.pc = "done" THEN toolReply(input, resp') ELSE NoReply

\* The interpeer_review handler is called: routeReview from its entry to its
\* first wait on the adapter (or to its end, when it throws before or answers
\* from the cache).
RouteReviewCall(input) ==
  /\ call.pc \in {"idle", "done"}
  /\ routeConfigured(input, ensureConfig(runtimeConfig, env, fsys, defaultTargetAgent,
                                         defaultModelOverride))
  /\ obs' = [prev |-> prev, startTime |-> now, cacheBefore |-> resultCache,
             checkedBefore |-> checked, installedBefore |-> installed,
             defaultAgent |-> defaultTargetAgent',
             defaultModel |-> defaultModelOverride']
  /\ Replied(input)
  /\ UNCHANGED <<now, heap, flight, boot, callerResult, held, lastOp, run, snap>>
  /\ UNCHANGED <<env, fsys, loaded, installed>>

\* The adapter's operation settles, with a value or with an error;
\* routeReview runs on to its next wait. The factory adapter runs the
\* configured command itself, which cannot succeed when the command is gone.
AdapterSettles(ok, value) ==
  /\ call.pc = "adapter" /\ rt.pc = "fn"
  /\ (ok /\ AdapterOf(call.agent) = "factory") =>
        Get(runtimeConfig).agents.factory.command \in installed
  /\ LET after == IF ok THEN withRetriesResolve(rt, value)
                        ELSE withRetriesCatch(rt, ErrorOf(op.calls))
         config == Get(runtimeConfig)
         adapter == AdapterOf(call.agent)
         modelId == IF IsSome(call.modelOverride) THEN Get(call.modelOverride)
                    ELSE config.agents[adapter].model
         result == [AdapterResult(adapter, call.agent, modelId, value)
                      EXCEPT !.cacheStatus = Some("miss")]
     IN
     /\ rt' = after
     /\ op' = [op EXCEPT
          !.raised = IF ok THEN @ ELSE Append(@, ErrorOf(op.calls)),
          !.sleeps = IF after.pc = "sleep" THEN Append(@, after.delay) ELSE @]
     /\ CASE after.pc = "returned" ->
               /\ resultCache' = routeStore(resultCache, config, call.key, result, now)
               /\ resp' = [kind |-> "result", result |-> result,
                           metric |-> Metric(config, call.agent, result.model, "miss",
                                             result.usage)]
               /\ call' = [call EXCEPT !.pc = "done"]
               /\ prev' = IF config.cache.enabled
                            THEN Some([input |-> call.input, agent |-> call.agent,
                                       modelOverride |-> call.modelOverride,
                                       key |-> call.key,
                                       result |-> result, storeTime |-> now])
                            ELSE None
               /\ trace' = [trace EXCEPT !.steps =
                    @ \o (IF config.cache.enabled THEN <<"storeCacheEntry">> ELSE <<>>)
                      \o <<"logReviewMetrics">>]
          [] after.pc = "thrown" ->
               /\ resp' = [kind |-> "error", error |-> Get(after.error)]
               /\ call' = [call EXCEPT !.pc = "done"]
               /\ prev' = None
               /\ UNCHANGED <<resultCache, trace>>
          [] OTHER -> UNCHANGED <<resultCache, resp, call, prev, trace>>
  /\ Replied(call.input)
  /\ UNCHANGED <<now, heap, flight, boot, callerResult, held, lastOp, run, snap>>
  /\ UNCHANGED <<configVars, checked, installed, obs>>

\* The backoff timer of the call in flight fires: fn is called again.
BackoffFires ==
  /\ call.pc = "adapter" /\ rt.pc = "sleep"
  /\ rt' = withRetriesWake(rt)
  /\ op' = [op EXCEPT !.calls = @ + 1]
  /\ trace' = [trace EXCEPT !.steps = Append(@, "fn")]
  /\ UNCHANGED <<cacheVars, configVars>>
  /\ UNCHANGED <<call, resp, checked, installed, obs, prev, reply>>

RouteTick ==
  /\ now < MaxClock
  /\ now' = now + 1
  /\ UNCHANGED <<resultCache, heap, flight, boot, callerResult, held, lastOp, run, snap>>
  /\ UNCHANGED <<retryVars, configVars, routeVars>>

\* __testUtils.setProjectRoot (index.ts:409-413), between calls.
SetProjectRoot ==
  /\ call.pc \in {"idle", "done"}
  /\ runtimeConfig' = None
  /\ resultCache' = <<>>
  /\ prev' = None
  /\ UNCHANGED <<now, heap, flight, boot, callerResult, held, lastOp, run, snap>>
  /\ call' = CallIdle /\ resp' = NoResp /\ obs' = NoObs
  /\ trace' = NoTrace /\ reply' = NoReply
  /\ UNCHANGED <<retryVars, env, fsys, defaultTargetAgent, defaultModelOverride, loaded>>
  /\ UNCHANGED <<checked, installed>>

NextRoute ==
  \/ \E i \in RouteInputs : RouteReviewCall(i)
  \/ \E ok \in BOOLEAN, v \in AdapterValues : AdapterSettles(ok, v)
  \/ BackoffFires
  \/ RouteTick
  \/ SetProjectRoot

SpecRoute == InitRoute /\ [][NextRoute]_vars

\* The call that has just ended repeats the request of the successful call
\* before it, under a configuration with caching enabled.
RepeatsPrevious ==
  /\ call.pc = "done"
  /\ IsSome(runtimeConfig) /\ Get(runtimeConfig).cache.enabled
  /\ SameRequest(obs.prev, call.input, call.agent, call.modelOverride)

AgeAtCall == obs.startTime - Get(obs.prev).storeTime

Exhausted == call.pc = "done" /\ rt.pc = "thrown"

\* C10 as stated: a call whose adapter fails on every one of the agent's
\* maxAttempts attempts ends in an error and leaves the cache exactly as it
\* was before the call.
C10_CacheExactlyAsBefore ==
  Exhausted => resp.kind = "error" /\ resultCache = obs.cacheBefore

\* C10 (amended): a call whose adapter fails on every one of the agent's
\* maxAttempts attempts ends in the last error; no entry exists for the
\* request's key afterwards, entries under other keys are as they were, and
\* the only change to the cache is that an entry under the request's key that
\* had already expired when the call began is gone.
C10_NoEntryAfterExhaustion ==
  Exhausted =>
    LET config == Get(runtimeConfig)
        before == MapGet(obs.cacheBefore, call.key) IN
    /\ op.calls = config.agents[AdapterOf(call.agent)].retry.maxAttempts
    /\ resp = [kind |-> "error", error |-> ErrorOf(op.calls)]
    /\ ~MapHas(resultCache, call.key)
    /\ resultCache = MapDelete(obs.cacheBefore, call.key)
    /\ IsSome(before) =>
         /\ config.cache.enabled
         /\ obs.startTime - Get(before).timestamp > config.cache.ttlMs

\* After two failed attempts the call ends; the expired entry of its key is
\* gone and the entry of another key is still there.
C10_Witness ==
  /\ Exhausted
  /\ op.calls = 2
  /\ MapHas(obs.cacheBefore, call.key)
  /\ Len(resultCache) = 1

-----------------------------------------------------------------------------
(* The tool handler under changing defaults, config files and commands *)

AgentInputs ==
  { InB,
    [InB EXCEPT !.target_agent = Some(CLAUDE_CODE)],
    [InB EXCEPT !.target_agent = Some(FACTORY_DROID)],
    [InB EXCEPT !.target_model = Some(<<" ", "sonnet", " ">>)],
    [InB EXCEPT !.target_agent = Some(CODEX_CLI), !.target_model = Some(<<"haiku">>)],
    [InB EXCEPT !.resource_paths = Some(<<MissingPath, NotesPath>>)] }

AgentEnv ==
  [EmptyEnv EXCEPT
     !.CACHE_TTL_MS = Some(<<"1">>),
     !.CACHE_MAX_ENTRIES = Some(<<"1">>),
     !.MAX_RETRIES = Some(<<"1">>)]

InitAgents ==
  /\ resultCache = <<>> /\ now = 0 /\ heap = <<>> /\ boot = NoBoot /\ flight = NoFlight /\ callerResult = None
  /\ held = None /\ lastOp = NoOp /\ run = EmptyRun /\ snap = <<>>
  /\ rt = RtIdle /\ op = OpIdle
  /\ env = AgentEnv
  /\ fsys = RouteFiles
  /\ defaultTargetAgent = InitialDefaultAgent(env)
  /\ defaultModelOverride = InitialDefaultModel(env)
  /\ runtimeConfig = None /\ loaded = None
  /\ call = CallIdle /\ resp = NoResp /\ checked = NoneChecked
  /\ installed = AllCommands
  /\ obs = NoObs /\ prev = None
  /\ trace = NoTrace /\ reply = NoReply

\* A command is removed from the PATH, or put back.
RemoveCommand(command) ==
  /\ command \in installed
  /\ installed' = installed \ {command}
  /\ UNCHANGED <<cacheVars, retryVars, configVars>>
  /\ UNCHANGED <<call, resp, checked, obs, prev, trace, reply>>

InstallCommand(command) ==
  /\ command \notin installed
  /\ installed' = installed \cup {command}
  /\ UNCHANGED <<cacheVars, retryVars, configVars>>
  /\ UNCHANGED <<call, resp, checked, obs, prev, trace, reply>>

\* The defaults, the config file and the commands change between calls.
Between == call.pc \in {"idle", "done"}

NextAgents ==
  \/ \E i \in AgentInputs : RouteReviewCall(i)
  \/ \E ok \in BOOLEAN : AdapterSettles(ok, [text |-> <<"LGTM">>, usage |-> None])
  \/ Between /\ SetDefaultAgent(CODEX_CLI)
  \/ Between /\ \E m \in {None, Some(<<"opus">>)} : SetDefaultModel(m)
  \/ Between /\ \E f \in {MissingFile, JsonFile(FileDefaults)} :
                    WriteConfigFile(DEFAULT_CONFIG_PATH, f)
  \/ SetProjectRoot
  \/ Between /\ RemoveCommand(DEFAULT_FACTORY_COMMAND)
  \/ Between /\ InstallCommand(DEFAULT_FACTORY_COMMAND)

SpecAgents == InitAgents /\ [][NextAgents]_vars

\* The handler has answered the request of the call that has just ended.
Answered == call.pc = "done" /\ reply.kind # "none"

\* C11: every failure the tool handler surfaces names the agent the router
\* resolved for the request (the request's target_agent, else the process-wide
\* default agent), at whichever step the error was raised.
C11_ErrorNamesResolvedAgent ==
  (Answered /\ reply.kind = "error") => reply.meta.agent = call.agent

\* C12: the agent routeReview dispatches to is the request's target_agent when
\* given, and otherwise the default agent recorded in the resolved
\* configuration (defaults.agent), whatever loads and setter calls came before.
C12_AgentFromRequestOrConfig ==
  (call.pc \in {"adapter", "done"} /\ IsSome(runtimeConfig)) =>
     call.agent = IF IsSome(call.input.target_agent)
                    THEN Get(call.input.target_agent)
                    ELSE Get(runtimeConfig).defaults.agent

\* The model C13 names for the call that has just ended.
ChosenModel ==
  IF IsSome(call.input.target_model) THEN Trim(Get(call.input.target_model))
  ELSE IF ~IsSome(call.input.target_agent) /\ IsSome(obs.defaultModel)
    THEN Get(obs.defaultModel)
    ELSE Get(runtimeConfig).agents[AdapterOf(call.agent)].model

\* C13: the model recorded in the result is the request's target_model
\* (trimmed) if given; otherwise, only when the request does not name
\* target_agent, the process-wide default-model override if one is set;
\* otherwise the chosen agent's configured model. A request that names
\* target_agent never receives the process-wide override.
C13_ModelResolution ==
  (Answered /\ resp.kind = "result") =>
     /\ resp.result.model = ChosenModel
     /\ reply.meta.model = ChosenModel

\* A request naming its agent, without target_model, is served with the
\* agent's configured model while a process-wide default model is set.
C13_Witness ==
  /\ Answered /\ resp.kind = "result"
  /\ IsSome(call.input.target_agent) /\ ~IsSome(call.input.target_model)
  /\ IsSome(obs.defaultModel)
  /\ resp.result.model = Get(runtimeConfig).agents[AdapterOf(call.agent)].model
  /\ resp.result.model # Get(obs.defaultModel)
\* Where a step first occurs in the steps of the call (0: nowhere).
StepAt(label) ==
  IF \E i \in 1..Len(trace.steps) : trace.steps[i] = label
    THEN CHOOSE i \in 1..Len(trace.steps) :
           trace.steps[i] = label /\ \A j \in 1..(i - 1) : trace.steps[j] # label
    ELSE 0
Took(label) == StepAt(label) > 0
\* If both steps were taken, the first was taken before the second.
Precedes(a, b) == (Took(a) /\ Took(b)) => StepAt(a) < StepAt(b)

CacheHit == Answered /\ resp.kind = "result" /\ resp.result.cacheStatus = Some("hit")

\* C14: in every call the resource expansion precedes the key construction
\* and the cache read precedes any availability probe; a call answered from
\* the cache runs no probe, builds no prompt, does not enter the retry
\* executor or the adapter and leaves the cache as it was.
C14_OrderAndShortCircuit ==
  /\ call.pc \in {"adapter", "done"} =>
       /\ Precedes("prepareInput", "buildCacheKey")
       /\ Precedes("buildCacheKey", "getCacheEntry")
       /\ Precedes("getCacheEntry", "runCliCheck")
       /\ Precedes("runCliCheck", "buildPromptBundle")
       /\ Precedes("buildPromptBundle", "withRetries")
       /\ Precedes("fn", "storeCacheEntry")
       /\ (Took("runCliCheck") /\ Get(runtimeConfig).cache.enabled)
            => Took("getCacheEntry")
  /\ CacheHit =>
       /\ Took("getCacheEntry")
       /\ ~Took("runCliCheck") /\ ~Took("buildPromptBundle")
       /\ ~Took("withRetries") /\ ~Took("fn") /\ ~Took("storeCacheEntry")
       /\ op.calls = 0 /\ rt = RtIdle
       /\ checked = obs.checkedBefore
       /\ resultCache = obs.cacheBefore

\* A request is answered from a cache whose entry was stored earlier.
C14_Witness ==
  /\ CacheHit
  /\ MapHas(obs.cacheBefore, call.key)
  /\ obs.startTime > Get(MapGet(obs.cacheBefore, call.key)).timestamp
  /\ resultCache = obs.cacheBefore
ProbeFailed == resp.kind = "error" /\ resp.error.label = "CLI not available"
Called == call.pc \in {"adapter", "done"}

\* C15: a call runs the availability probe of its agent only if the agent's
\* flag was not yet set; the flag is set only by a probe that succeeded; a
\* call whose agent's flag was set never fails through the probe; a failed
\* probe sets no flag; and no step, a project-root reset included, ever
\* clears a flag.
C15_ProbeMemoized ==
  /\ [](Called =>
         LET a == AdapterOf(call.agent) IN
         /\ Took("runCliCheck") => ~obs.checkedBefore[a]
         /\ obs.checkedBefore[a] => ~ProbeFailed
         /\ ProbeFailed => checked = obs.checkedBefore
         /\ \A b \in DOMAIN checked :
              checked[b] # obs.checkedBefore[b] =>
                /\ b = a /\ checked[b] /\ Took("runCliCheck")
                /\ ProbeCommand(a, Get(runtimeConfig), env) \in obs.installedBefore)
  /\ [][\A b \in DOMAIN checked : checked[b] => checked'[b]]_vars

\* A request to the agent whose command disappeared after its probe had
\* succeeded is not probed again and fails in the adapter's own call.
C15_Witness ==
  /\ call.pc = "done"
  /\ AdapterOf(call.agent) = "factory"
  /\ obs.checkedBefore.factory
  /\ DEFAULT_FACTORY_COMMAND \notin obs.installedBefore
  /\ ~Took("runCliCheck") /\ Took("fn")
  /\ resp.kind = "error" /\ resp.error = ErrorOf(1)
\* C16: the availability probe is run only for the subprocess-command agent
\* (factory_droid); a request routed to claude_code or codex_cli, whose
\* adapters are SDK calls, never runs a version probe.
C16_OnlyFactoryProbed ==
  (Called /\ Took("runCliCheck")) => AdapterOf(call.agent) = "factory"
ResourcePaths == OrElse(call.input.resource_paths, <<>>)
Unreadable == {i \in 1..Len(ResourcePaths) : ~Readable(fsys, ResourcePaths[i])}

\* C17: a request with an unreadable resource path fails with the
\* resource-read error naming the first such path; the paths up to it are read
\* once each and those after it are not read; the call reads and writes no
\* cache entry, runs no probe and does not invoke the adapter.
C17_ResourceFailureStopsCall ==
  (Called /\ Unreadable # {}) =>
     LET first == CHOOSE i \in Unreadable : \A j \in Unreadable : i <= j IN
     /\ call.pc = "done"
     /\ resp = [kind |-> "error",
                error |-> RouteError("Failed to read resource", ResourcePaths[first])]
     /\ reply.kind = "error"
     /\ trace.reads = SubSeq(ResourcePaths, 1, first)
     /\ trace.steps = <<"ensureConfig", "prepareInput">>
     /\ resultCache = obs.cacheBefore
     /\ checked = obs.checkedBefore
     /\ op.calls = 0 /\ rt = RtIdle

\* The first of two paths cannot be read: the second is not read and the
\* entry the cache holds is left alone.
C17_Witness ==
  /\ call.pc = "done"
  /\ ResourcePaths = <<MissingPath, NotesPath>>
  /\ trace.reads = <<MissingPath>>
  /\ resp.kind = "error"
  /\ Len(resultCache) = 1
RECURSIVE FileBlocks(_)
\* For each path in order: a blank line, the label line of the file, a code
\* fence, the file's contents and a closing fence.
FileBlocks(paths) ==
  IF paths = <<>> THEN <<>>
  ELSE <<NL, NL, "# File: ">> \o Head(paths) \o <<NL, FENCE, NL>>
         \o fsys[Head(paths)].data \o <<NL, FENCE>> \o FileBlocks(Tail(paths))

\* C18: when every resource path is readable the prepared request has the
\* original content followed by one file-labeled block per path, in the order
\* of resource_paths, and every other field as it was; without resource paths
\* it is the request itself; the cache key and the prompt are built from the
\* prepared request.
C18_PreparedContent ==
  (Called /\ IsSome(call.prepared)) =>
     LET prepared == Get(call.prepared) IN
     /\ prepared.content = call.input.content \o FileBlocks(ResourcePaths)
     /\ [prepared EXCEPT !.content = call.input.content] = call.input
     /\ ResourcePaths = <<>> => prepared = call.input
     /\ call.key = buildCacheKey(prepared, call.agent, call.modelOverride)
     /\ ResourcePaths # <<>> =>
          call.key # buildCacheKey(call.input, call.agent, call.modelOverride)
     /\ IsSome(call.prompt) =>
          /\ Get(call.prompt).ok
          /\ Get(call.prompt) = AdapterPrompt(AdapterOf(call.agent), prepared)
          /\ ResourcePaths # <<>> =>
               Get(call.prompt) # AdapterPrompt(AdapterOf(call.agent), call.input)

\* A request naming two readable files has reached its adapter.
C18_Witness ==
  /\ call.pc = "adapter"
  /\ ResourcePaths = <<ExamplePath, NotesPath>>
  /\ IsSome(call.prepared) /\ IsSome(call.prompt)
  /\ Get(call.prepared).content =
       <<"x=1", NL, NL, "# File: ", "example.txt", NL, FENCE, NL, "sample content", NL, FENCE,
         NL, NL, "# File: ", "notes.txt", NL, FENCE, NL, "notes", NL, FENCE>>
\* The fields of a request that the cache key normalizes, besides the content,
\* the agent and the model.
Normalized(input) ==
  [focus |-> OrElse(input.focus, <<>>),
   style |-> OrElse(input.style, "structured"),
   review_type |-> OrElse(input.review_type, "general"),
   time_budget_seconds |-> input.time_budget_seconds]

\* The call that has just ended ran its adapter, and the successful call
\* before it resolved to the same agent and the same model and agrees with it
\* on the content and on the other normalized fields.
SameResolution ==
  /\ call.pc = "done" /\ resp.kind = "result"
  /\ resp.result.cacheStatus = Some("miss")
  /\ IsSome(obs.prev) /\ IsSome(call.prepared)
  /\ Get(obs.prev).agent = call.agent
  /\ Get(obs.prev).result.model = resp.result.model
  /\ ~IsSome(Get(obs.prev).input.resource_paths)
  /\ Get(obs.prev).input.content = Get(call.prepared).content
  /\ Normalized(Get(obs.prev).input) = Normalized(call.input)

\* C19: two requests that resolve to the same agent and the same model and
\* agree on the content and the other normalized fields get the same cache
\* key, whether the model came from target_model or from a default.
C19_SameResolutionSameKey ==
  SameResolution => Get(obs.prev).key = call.key
-----------------------------------------------------------------------------
(* buildPromptBundle called directly (__testUtils.buildPromptBundle) while the
   process-wide defaults and the loaded configuration change *)

PromptInputs ==
  { InA, InB,
    [InB EXCEPT !.style = Some("freeform"), !.time_budget_seconds = Some(30)],
    [InA EXCEPT !.review_type = Some("performance")],
    [InA EXCEPT !.review_type = Some("constructor")] }

\* __testUtils.buildPromptBundle(input): the bundle returned (or the error
\* thrown) and the argument as it is after the call; snap keeps what the first
\* call with each request returned.
BuildPromptBundle(input) ==
  LET bundle == buildPromptBundle(input) IN
  /\ lastOp' = [op |-> "buildPromptBundle", key |-> Some(input), arg |-> input,
                ret |-> Some(bundle), wasPresent |-> MapHas(snap, input), age |-> 0]
  /\ snap' = IF MapHas(snap, input) THEN snap ELSE MapSet(snap, input, bundle)
  /\ UNCHANGED <<resultCache, now, heap, flight, boot, callerResult, held, run>>
  /\ UNCHANGED <<retryVars, configVars, routeVars>>

NextPrompt ==
  \/ \E i \in PromptInputs : BuildPromptBundle(i)
  \/ \E m \in {None, Some(<<"opus">>)} : SetDefaultModel(m)
  \/ SetDefaultAgent(CODEX_CLI)
  \/ LoadConfig

SpecPrompt == InitConfig /\ [][NextPrompt]_vars

\* The review types that have a template of their own.
TemplateIds == DOMAIN REVIEW_TEMPLATES

\* C20: a call of buildPromptBundle returns what the first call with the same
\* request returned, whatever happened in between, leaves its argument as it
\* was, and for a review_type that has no template returns the bundle of the
\* general template.
C20_PureWithGeneralFallback ==
  lastOp.op = "buildPromptBundle" =>
     /\ MapGet(snap, Get(lastOp.key)) = lastOp.ret
     /\ lastOp.arg = Get(lastOp.key)
     /\ OrElse(lastOp.arg.review_type, "general") \notin TemplateIds =>
          lastOp.ret = Some(buildPromptBundle([lastOp.arg EXCEPT !.review_type = Some("general")]))
-----------------------------------------------------------------------------
\* C24: a call of loadConfig changes no process-wide state: the default agent,
\* the default-model override, the memoized configuration, the cache and the
\* availability flags are after the call what they were before it.
C24_LoadConfigChangesNothing ==
  [][IsSome(loaded') =>
       /\ defaultTargetAgent' = defaultTargetAgent
       /\ defaultModelOverride' = defaultModelOverride
       /\ runtimeConfig' = runtimeConfig
       /\ resultCache' = resultCache
       /\ checked' = checked]_vars
-----------------------------------------------------------------------------
(* The server launched from the command line: runMcpCli applies the launch
   flags, then bootstrapServer loads the configuration *)

NoFlags == [agent |-> None, model |-> None, config |-> None]
LaunchFlags ==
  [agent : {None, Some(CODEX_CLI), Some(FACTORY_DROID)},
   model : {None, Some(<<"opus">>)},
   config : {None, Some(CUSTOM_CONFIG_PATH)}]

\* applyFlag(flag, value) for --default-agent, --default-model and --config:
\* nothing when the value is empty, else the environment variable is set and,
\* for the two defaults, the setter is called.
applyFlags(penv, defaultAgent, defaultModel, flags) ==
  LET given(v) == IsSome(v) /\ Get(v) # <<>> IN
  [env |-> [penv EXCEPT
              !.DEFAULT_AGENT = IF given(flags.agent) THEN flags.agent ELSE @,
              !.DEFAULT_MODEL = IF given(flags.model) THEN flags.model ELSE @,
              !.CONFIG_PATH = IF given(flags.config) THEN flags.config ELSE @],
   defaultTargetAgent |-> IF given(flags.agent) THEN Get(flags.agent) ELSE defaultAgent,
   defaultModelOverride |->
     IF given(flags.model) THEN setDefaultModelOverride(flags.model) ELSE defaultModel]

\* runMcpCli(argv): parseArgs applies the flags, then bootstrapServer sets
\* runtimeConfig = loadConfig(projectRootPath). A process is launched once.
RunMcpCli(flags) ==
  LET applied == applyFlags(env, defaultTargetAgent, defaultModelOverride, flags)
      r == loadConfig(applied.env, fsys, applied.defaultTargetAgent,
                      applied.defaultModelOverride) IN
  /\ lastOp.op = "none"
  /\ lastOp' = [op |-> "runMcpCli", key |-> None, arg |-> flags, ret |-> None,
                wasPresent |-> FALSE, age |-> 0]
  /\ env' = applied.env
  /\ runtimeConfig' = Some(r.config)
  /\ defaultTargetAgent' = r.defaultTargetAgent
  /\ defaultModelOverride' = r.defaultModelOverride
  /\ boot' = [boot EXCEPT !.started = TRUE, !.server = TRUE, !.registered = 1,
                           !.connected = 1, !.projectRootPath = <<"cwd">>]
  /\ UNCHANGED <<fsys, loaded>>
  /\ UNCHANGED <<resultCache, now, heap, flight, callerResult, held, run, snap>>
  /\ UNCHANGED <<retryVars, routeVars>>

NextLaunch ==
  \/ \E p \in ConfigPaths, f \in FileChoices : lastOp.op = "none" /\ WriteConfigFile(p, f)
  \/ \E flags \in LaunchFlags : RunMcpCli(flags)
  \/ lastOp.op # "none" /\ LoadConfig

SpecLaunch == InitConfig /\ [][NextLaunch]_vars

\* C25: a default agent or default model given at launch through the setter
\* is what the process-wide defaults and the defaults of the loaded
\* configuration hold after the configuration has been loaded, whatever the
\* config file says.
C25_SetterAppliedLast ==
  lastOp.op = "runMcpCli" =>
     /\ IsSome(lastOp.arg.agent) =>
          /\ defaultTargetAgent = Get(lastOp.arg.agent)
          /\ Get(runtimeConfig).defaults.agent = Get(lastOp.arg.agent)
     /\ IsSome(lastOp.arg.model) =>
          /\ defaultModelOverride = lastOp.arg.model
          /\ Get(runtimeConfig).defaults.model = lastOp.arg.model
-----------------------------------------------------------------------------
\* The path loadConfig reads in the current state, and whether it was asked
\* for through INTERPEER_CONFIG_PATH.
CurrentPath == TrimOr(env.CONFIG_PATH, DEFAULT_CONFIG_PATH)
PathRequested == IsSome(env.CONFIG_PATH) /\ Get(env.CONFIG_PATH) # <<>>

\* C26: loadConfig returns the defaults plus environment values when the file
\* is missing, and returns no configuration (it raises) for a malformed file
\* whose path was requested through INTERPEER_CONFIG_PATH.
C26_MalformedRequestedFileRaises ==
  IsSome(loaded) =>
     /\ fsys[CurrentPath].kind = "missing" =>
          Get(loaded) = EnvConfig(env, defaultTargetAgent, defaultModelOverride)
     /\ ~(PathRequested /\ fsys[CurrentPath].kind = "malformed")
-----------------------------------------------------------------------------
RetryInRange(retry) == retry.maxAttempts >= 1 /\ retry.baseDelayMs >= 0

\* C29: in every configuration loadConfig returns, each agent's retry
\* settings have maxAttempts >= 1 and baseDelayMs >= 0, and the cache policy
\* has maxEntries >= 1 and ttlMs >= 0.
C29_SettingsInRange ==
  IsSome(loaded) =>
     /\ \A a \in {"claude", "codex", "factory"} : RetryInRange(Get(loaded).agents[a].retry)
     /\ Get(loaded).cache.maxEntries >= 1
     /\ Get(loaded).cache.ttlMs >= 0
-----------------------------------------------------------------------------
\* What loadConfig would return in the current state.
FreshConfig == loadConfig(env, fsys, defaultTargetAgent, defaultModelOverride).config

\* C27: the memoized configuration is created by the first request that
\* finds none, as loadConfig returns it then; afterwards no step changes it
\* but a project-root reset, which drops it together with the cache; and the
\* call in flight runs with the retry settings of the memoized configuration.
C27_ConfigOncePerScope ==
  /\ [][IsSome(runtimeConfig) =>
          \/ runtimeConfig' = runtimeConfig
          \/ runtimeConfig' = None /\ call'.pc = "idle" /\ resultCache' = <<>>]_vars
  /\ [][(~IsSome(runtimeConfig) /\ IsSome(runtimeConfig')) =>
          /\ call'.pc # "idle"
          /\ runtimeConfig' = Some(FreshConfig)]_vars
  /\ [](call.pc = "adapter" =>
          /\ IsSome(runtimeConfig)
          /\ rt.maxAttempts = Get(runtimeConfig).agents[AdapterOf(call.agent)].retry.maxAttempts
          /\ rt.baseDelayMs = Get(runtimeConfig).agents[AdapterOf(call.agent)].retry.baseDelayMs)

\* A request is in flight under a memoized configuration that differs from
\* what the config file, written since, would give now.
C27_Witness ==
  /\ call.pc = "adapter"
  /\ IsSome(runtimeConfig)
  /\ fsys[DEFAULT_CONFIG_PATH].kind = "json"
  /\ Get(runtimeConfig) # FreshConfig
-----------------------------------------------------------------------------
\* routeReview threw: a resource could not be read, the availability probe
\* failed, or the adapter failed on its last attempt.
RouteThrew ==
  \/ Unreadable # {}
  \/ Took("runCliCheck") /\ ~Took("fn")
  \/ rt.pc = "thrown"

-----------------------------------------------------------------------------
\* The placeholder each agent's adapter gives for an empty response.
Placeholder(agent) ==
  CASE agent = CLAUDE_CODE -> <<"Claude Code returned an empty response.">>
    [] agent = CODEX_CLI -> <<"Codex CLI returned an empty response.">>
    [] agent = FACTORY_DROID -> <<"Factory CLI returned an empty response.">>

\* The adapter of the call that has just ended returned empty or
\* whitespace-only output.
EmptyOutput ==
  /\ call.pc = "done" /\ rt.pc = "returned"
  /\ Trim(Get(rt.value).text) = <<>>

\* C30: every result routeReview returns has non-empty text; when the adapter
\* returned empty or whitespace-only output the text is the agent's
\* placeholder, and that result is tagged as a miss, stored in the cache under
\* the call's key when caching is enabled, and returned as a success.
C30_NonEmptyText ==
  /\ (call.pc = "done" /\ resp.kind = "result") =>
        /\ resp.result.text # <<>>
        /\ Trim(resp.result.text) # <<>>
        /\ reply.kind = "result" /\ reply.content = resp.result.text
  /\ EmptyOutput =>
        /\ resp.kind = "result"
        /\ resp.result.text = Placeholder(call.agent)
        /\ resp.result.cacheStatus = Some("miss")
        /\ Get(runtimeConfig).cache.enabled =>
             /\ MapHas(resultCache, call.key)
             /\ Get(MapGet(resultCache, call.key)).agent.text = Placeholder(call.agent)
             /\ Get(MapGet(resultCache, call.key)).agent.model = resp.result.model

\* A placeholder stored by an earlier call is returned from the cache.
C30_Witness ==
  /\ call.pc = "done" /\ resp.kind = "result"
  /\ resp.result.cacheStatus = Some("hit")
  /\ resp.result.text = Placeholder(call.agent)
  /\ reply.content = Placeholder(call.agent)
-----------------------------------------------------------------------------
(* interpeer-agents: parseCliArgs (bin/interpeer-agents.ts:230-401). A
   command-line token is a sequence of symbols; a flag token begins with the
   symbol "--" and may carry an inline value after the symbol "=". *)

MaxArgs == 3

Flag(name) == <<"--", name>>
GLOBAL_FLAGS == {Flag("project-root"), Flag("config")}
RESERVED_AGENT_IDS == {<<"claude">>, <<"codex">>, <<"factory">>}
VALID_AGENTS == {CLAUDE_CODE, CODEX_CLI, FACTORY_DROID}

\* COMMAND_FLAG_SPEC: the flags each command allows and, in the order they
\* are checked, the flags it requires.
CommandNames ==
  {<<"list">>, <<"list-agents">>, <<"set-default">>, <<"set-agent">>,
   <<"add-agent">>, <<"remove-agent">>}
COMMAND_FLAG_SPEC ==
  [c \in CommandNames |->
     CASE c = <<"set-default">> ->
            [allowed |-> {Flag("agent"), Flag("model")}, required |-> <<>>]
       [] c = <<"set-agent">> ->
            [allowed |-> {Flag("id"), Flag("command"), Flag("model")},
             required |-> <<Flag("id")>>]
       [] c = <<"add-agent">> ->
            [allowed |-> {Flag("id"), Flag("command"), Flag("model"),
                          Flag("max-attempts"), Flag("base-delay")},
             required |-> <<Flag("id"), Flag("command"), Flag("model")>>]
       [] c = <<"remove-agent">> ->
            [allowed |-> {Flag("id")}, required |-> <<Flag("id")>>]
       [] OTHER -> [allowed |-> {}, required |-> <<>>]]

\* A name that a plain object inherits from Object.prototype.
InheritedName(name) == Len(name) = 1 /\ name[1] \in ObjectPrototypeKeys

CliError(label, detail) == [ok |-> FALSE, error |-> <<label, detail>>]
Cwd == <<"/cwd">>
NoCommand ==
  [kind |-> <<>>, projectRoot |-> Cwd, configPath |-> None, agent |-> None,
   model |-> None, agentId |-> None, command |-> None, retry |-> None]

StartsWithDashes(token) == token # <<>> /\ token[1] = "--"
\* String.prototype.indexOf("="), counted from 1; 0 when there is none.
EqualsIndex(token) ==
  IF \E i \in 1..Len(token) : token[i] = "="
    THEN CHOOSE i \in 1..Len(token) :
           token[i] = "=" /\ \A j \in 1..(i - 1) : token[j] # "="
    ELSE 0

RECURSIVE ScanArgs(_, _, _, _)
\* The loop over argv (230-266): the positional tokens and the flag map.
ScanArgs(argv, i, positional, flags) ==
  IF i > Len(argv) THEN [ok |-> TRUE, positional |-> positional, flags |-> flags]
  ELSE IF ~StartsWithDashes(argv[i])
    THEN ScanArgs(argv, i + 1, Append(positional, argv[i]), flags)
  ELSE IF EqualsIndex(argv[i]) # 0
    THEN LET flag == SubSeq(argv[i], 1, EqualsIndex(argv[i]) - 1)
             value == SubSeq(argv[i], EqualsIndex(argv[i]) + 1, Len(argv[i])) IN
         IF flag = <<>> THEN CliError("Encountered malformed flag", <<>>)
         ELSE IF MapHas(flags, flag) THEN CliError("specified multiple times", flag)
         ELSE ScanArgs(argv, i + 1, positional, MapSet(flags, flag, value))
  ELSE IF i + 1 > Len(argv) \/ StartsWithDashes(argv[i + 1])
    THEN CliError("expects a value", argv[i])
  ELSE IF MapHas(flags, argv[i]) THEN CliError("specified multiple times", argv[i])
  ELSE ScanArgs(argv, i + 2, positional, MapSet(flags, argv[i], argv[i + 1]))

\* normalizeValue(value, flag, {allowEmpty})
normalizeValue(value, flag, allowEmpty) ==
  IF Trim(OrElse(value, <<>>)) = <<>> /\ ~allowEmpty
    THEN CliError("cannot be empty", flag)
    ELSE [ok |-> TRUE, value |-> Trim(OrElse(value, <<>>))]

\* AGENT_ID_PATTERN /^[a-z0-9_-]+$/ on the symbols the model uses.
PatternSymbols ==
  {"claude", "codex", "factory", "openrouter", "copilot", "constructor",
   "__proto__", "_", "-"} \cup DigitChars
\* assertValidAgentId(value, flag)
assertValidAgentId(value, flag) ==
  IF Trim(value) = <<>> THEN CliError("cannot be empty", flag)
  ELSE IF \E i \in 1..Len(Trim(value)) : Trim(value)[i] \notin PatternSymbols
    THEN CliError("must use lowercase letters, numbers, underscores, or hyphens", flag)
  ELSE [ok |-> TRUE, value |-> Trim(value)]

\* parsePositiveInteger(value, flag, {min})
parsePositiveInteger(value, flag, min) ==
  IF Trim(value) = <<>> THEN CliError("cannot be empty", flag)
  ELSE IF ~IsSome(NumberParseInt(Trim(value))) THEN CliError("must be an integer", flag)
  ELSE IF Get(NumberParseInt(Trim(value))) < min THEN CliError("must be >= min", flag)
  ELSE [ok |-> TRUE, value |-> Get(NumberParseInt(Trim(value)))]

\* The retry object of add-agent (372-382, 391).
parseRetry(flags) ==
  LET ma == IF MapHas(flags, Flag("max-attempts"))
              THEN parsePositiveInteger(Get(MapGet(flags, Flag("max-attempts"))),
                                        Flag("max-attempts"), 1)
              ELSE [ok |-> TRUE, value |-> -1]
      bd == IF MapHas(flags, Flag("base-delay"))
              THEN parsePositiveInteger(Get(MapGet(flags, Flag("base-delay"))),
                                        Flag("base-delay"), 0)
              ELSE [ok |-> TRUE, value |-> -1] IN
  IF ~ma.ok THEN ma
  ELSE IF ~bd.ok THEN bd
  ELSE [ok |-> TRUE,
        value |-> IF ~MapHas(flags, Flag("max-attempts")) /\ ~MapHas(flags, Flag("base-delay"))
                    THEN None
                    ELSE Some([maxAttempts |-> IF MapHas(flags, Flag("max-attempts"))
                                                 THEN Some(ma.value) ELSE None,
                               baseDelayMs |-> IF MapHas(flags, Flag("base-delay"))
                                                 THEN Some(bd.value) ELSE None])]

\* The switch on the command name (320-400), with the parsed globals.
buildCommand(commandName, flags, base) ==
  LET id == assertValidAgentId(OrElse(MapGet(flags, Flag("id")), <<>>), Flag("id"))
      agent == normalizeValue(MapGet(flags, Flag("agent")), Flag("agent"), FALSE)
      cmd == normalizeValue(MapGet(flags, Flag("command")), Flag("command"), FALSE)
      model == normalizeValue(MapGet(flags, Flag("model")), Flag("model"),
                              commandName = <<"set-default">>)
      hasAgent == MapHas(flags, Flag("agent"))
      hasCmd == MapHas(flags, Flag("command"))
      hasModel == MapHas(flags, Flag("model"))
      retry == parseRetry(flags) IN
  CASE commandName \in {<<"list">>, <<"list-agents">>} ->
         [ok |-> TRUE, command |-> [base EXCEPT !.kind = commandName]]
    [] commandName = <<"set-default">> ->
         IF hasAgent /\ ~agent.ok THEN agent
         ELSE IF hasModel /\ ~model.ok THEN model
         ELSE IF ~hasAgent /\ ~hasModel THEN CliError("Nothing to update", <<>>)
         ELSE [ok |-> TRUE,
               command |-> [base EXCEPT !.kind = commandName,
                              !.agent = IF hasAgent THEN Some(agent.value) ELSE None,
                              !.model = IF hasModel THEN Some(model.value) ELSE None]]
    [] commandName = <<"set-agent">> ->
         IF ~id.ok THEN id
         ELSE IF hasCmd /\ ~cmd.ok THEN cmd
         ELSE IF hasModel /\ ~model.ok THEN model
         ELSE IF ~hasCmd /\ ~hasModel
           THEN CliError("set-agent requires at least one of --command or --model", <<>>)
         ELSE [ok |-> TRUE,
               command |-> [base EXCEPT !.kind = commandName, !.agentId = Some(id.value),
                              !.command = IF hasCmd THEN Some(cmd.value) ELSE None,
                              !.model = IF hasModel THEN Some(model.value) ELSE None]]
    [] commandName = <<"add-agent">> ->
         IF ~id.ok THEN id
         ELSE IF ~cmd.ok THEN cmd
         ELSE IF ~model.ok THEN model
         ELSE IF ~retry.ok THEN retry
         ELSE [ok |-> TRUE,
               command |-> [base EXCEPT !.kind = commandName, !.agentId = Some(id.value),
                              !.command = Some(cmd.value), !.model = Some(model.value),
                              !.retry = retry.value]]
    [] commandName = <<"remove-agent">> ->
         IF ~id.ok THEN id
         ELSE [ok |-> TRUE,
               command |-> [base EXCEPT !.kind = commandName, !.agentId = Some(id.value)]]
    [] OTHER -> CliError("Unknown command", commandName)

\* --project-root and --config (293-318); dirs tells what each path is.
parseGlobals(commandName, flags, dirs) ==
  LET root == MapGet(flags, Flag("project-root"))
      config == MapGet(flags, Flag("config")) IN
  IF IsSome(root) /\ Trim(Get(root)) = <<>>
    THEN CliError("cannot be empty", Flag("project-root"))
  ELSE IF IsSome(root) /\ Get(root) \notin DOMAIN dirs
    THEN CliError("Project root does not exist", Get(root))
  ELSE IF IsSome(root) /\ dirs[Get(root)] # "dir"
    THEN CliError("Unable to access project root", Get(root))
  ELSE IF IsSome(config) /\ Trim(Get(config)) = <<>>
    THEN CliError("cannot be empty", Flag("config"))
  ELSE buildCommand(commandName, flags,
                    [NoCommand EXCEPT !.projectRoot = OrElse(root, Cwd),
                                      !.configPath = TrimOpt(config)])

\* A parser that does not check the flags against the command's allow-list.
checkFlags_NoAllowList(commandName, flags, dirs) ==
  LET known == commandName \in CommandNames
      required == IF known THEN COMMAND_FLAG_SPEC[commandName].required ELSE <<>>
      missing == {i \in 1..Len(required) : ~MapHas(flags, required[i])} IN
  IF ~known /\ ~InheritedName(commandName) THEN CliError("Unknown command", commandName)
  ELSE IF missing # {}
    THEN CliError("requires", required[CHOOSE i \in missing : \A j \in missing : i <= j])
  ELSE parseGlobals(commandName, flags, dirs)


\* The flags checked against the command's spec (273-291). A command name
\* that Object.prototype defines finds an inherited member, which has
\* neither allowed nor required.
checkFlags(commandName, flags, dirs) ==
  LET known == commandName \in CommandNames
      keys == MapKeys(flags)
      bad == {i \in 1..Len(keys) :
                keys[i] \notin GLOBAL_FLAGS
                /\ (~known \/ keys[i] \notin COMMAND_FLAG_SPEC[commandName].allowed)}
      required == IF known THEN COMMAND_FLAG_SPEC[commandName].required ELSE <<>>
      missing == {i \in 1..Len(required) : ~MapHas(flags, required[i])} IN
  IF ~known /\ ~InheritedName(commandName) THEN CliError("Unknown command", commandName)
  ELSE IF bad # {} /\ ~known THEN CliError("TypeError", commandName)
  ELSE IF bad # {}
    THEN CliError("is not valid for command",
                  keys[CHOOSE i \in bad : \A j \in bad : i <= j])
  ELSE IF missing # {}
    THEN CliError("requires", required[CHOOSE i \in missing : \A j \in missing : i <= j])
  ELSE parseGlobals(commandName, flags, dirs)

\* parseCliArgs(argv): the command, or the error it throws.
parseCliArgs(argv, dirs) ==
  LET scanned == ScanArgs(argv, 1, <<>>, <<>>) IN
  IF ~scanned.ok THEN scanned
  ELSE IF Len(scanned.positional) > 1
    THEN CliError("Unexpected positional arguments", Tail(scanned.positional))
  ELSE checkFlags(IF scanned.positional = <<>> THEN <<"list">>
                                               ELSE Head(scanned.positional),
                  scanned.flags, dirs)
-----------------------------------------------------------------------------
(* parseCliArgs applied to argument lists *)

CliTokens ==
  { <<"list">>, <<"set-default">>, <<"set-agent">>, <<"add-agent">>, <<"remove-agent">>,
    <<"bogus">>, <<"constructor">>, <<"codex_cli">>,
    Flag("agent"),
    <<"--", "model", "=">>,
    <<"--", "id", "=", "claude">>,
    <<"--", "command", "=", "or">>,
    <<"--", "unknown", "=", "foo">>,
    <<"--", "config", "=", "custom.json">>,
    <<"--", "project-root", "=", "/missing">> }

CliDirs == (Cwd :> "dir") @@ (<<"/repo">> :> "dir") @@ (<<"/repo/notes.txt">> :> "file")

ArgLists == UNION {[1..n -> CliTokens] : n \in 0..MaxArgs}

InitCli ==
  /\ resultCache = <<>> /\ now = 0 /\ heap = <<>> /\ boot = NoBoot /\ flight = NoFlight /\ callerResult = None
  /\ held = None /\ run = EmptyRun /\ snap = <<>>
  /\ \E argv \in ArgLists :
       lastOp = [op |-> "argv", key |-> None, arg |-> argv, ret |-> None,
                 wasPresent |-> FALSE, age |-> 0]
  /\ rt = RtIdle /\ op = OpIdle
  /\ env = EmptyEnv /\ fsys = NoFiles
  /\ defaultTargetAgent = InitialDefaultAgent(env)
  /\ defaultModelOverride = InitialDefaultModel(env)
  /\ runtimeConfig = None /\ loaded = None
  /\ call = CallIdle /\ resp = NoResp /\ checked = NoneChecked /\ installed = {}
  /\ obs = NoObs /\ prev = None /\ trace = NoTrace /\ reply = NoReply

\* parseCliArgs(argv) is called with the process's arguments.
ParseCliArgs ==
  /\ lastOp.op = "argv"
  /\ lastOp' = [lastOp EXCEPT !.op = "parseCliArgs",
                              !.ret = Some(parseCliArgs(lastOp.arg, CliDirs))]
  /\ UNCHANGED <<resultCache, now, heap, flight, boot, callerResult, held, run, snap>>
  /\ UNCHANGED <<retryVars, configVars, routeVars>>

NextCli == ParseCliArgs

SpecCli == InitCli /\ [][NextCli]_vars

\* The flag occurrences of an argument list, and its command: a token that
\* begins with "--" is a flag, and a token that neither is a flag nor follows
\* a flag without inline value is positional.
FlagAt(argv, i) == StartsWithDashes(argv[i])
FlagNameAt(argv, i) ==
  IF EqualsIndex(argv[i]) = 0 THEN argv[i] ELSE SubSeq(argv[i], 1, EqualsIndex(argv[i]) - 1)
FlagNames(argv) == {FlagNameAt(argv, i) : i \in {j \in 1..Len(argv) : FlagAt(argv, j)}}
PositionalAt(argv, i) ==
  /\ ~FlagAt(argv, i)
  /\ ~(i > 1 /\ FlagAt(argv, i - 1) /\ EqualsIndex(argv[i - 1]) = 0)
CommandOf(argv) ==
  IF \E i \in 1..Len(argv) : PositionalAt(argv, i)
    THEN argv[CHOOSE i \in 1..Len(argv) :
                PositionalAt(argv, i) /\ \A j \in 1..(i - 1) : ~PositionalAt(argv, j)]
    ELSE <<"list">>

\* One of the faults the parser has to reject is in the argument list.
Faulty(argv) ==
  LET c == CommandOf(argv) IN
  \/ c \notin CommandNames
  \/ \E f \in FlagNames(argv) : f \notin GLOBAL_FLAGS /\ f \notin COMMAND_FLAG_SPEC[c].allowed
  \/ \E i, j \in 1..Len(argv) :
        i # j /\ FlagAt(argv, i) /\ FlagAt(argv, j) /\ FlagNameAt(argv, i) = FlagNameAt(argv, j)
  \/ \E k \in 1..Len(COMMAND_FLAG_SPEC[c].required) :
        COMMAND_FLAG_SPEC[c].required[k] \notin FlagNames(argv)
  \/ c = <<"set-agent">> /\ Flag("command") \notin FlagNames(argv)
                         /\ Flag("model") \notin FlagNames(argv)

\* C23: parseCliArgs throws, and gives no command, for every argument list
\* with a flag outside the command's allow-list (the global flags apart), a
\* flag given more than once, a required flag missing, an unknown command, or
\* set-agent with neither --command nor --model; the empty argument list
\* parses as the list command.
C23_FaultyArgsRejected ==
  lastOp.op = "parseCliArgs" =>
     /\ Faulty(lastOp.arg) =>
          /\ ~Get(lastOp.ret).ok
          /\ "command" \notin DOMAIN Get(lastOp.ret)
     /\ lastOp.arg = <<>> =>
          /\ Get(lastOp.ret).ok
          /\ Get(lastOp.ret).command = [NoCommand EXCEPT !.kind = <<"list">>]

\* list --unknown=foo is rejected because of the flag.
C23_Witness ==
  /\ lastOp.op = "parseCliArgs"
  /\ lastOp.arg = << <<"list">>, <<"--", "unknown", "=", "foo">> >>
  /\ ~Get(lastOp.ret).ok
  /\ Get(lastOp.ret).error = <<"is not valid for command", Flag("unknown")>>
-----------------------------------------------------------------------------
(* interpeer-agents: the commands that edit the config file
   (bin/interpeer-agents.ts:447-699) *)

\* saveConfigFile(path, config): the file holds JSON.stringify(config, null, 2)
\* and a newline, whatever its bytes were before.
SavedFile(json) == [kind |-> "json", json |-> json, saved |-> TRUE]
saveConfigFile(files, path, config) == [files EXCEPT ![path] = SavedFile(config)]

\* getConfigPath(projectRoot, override)
getConfigPath(command) ==
  IF IsSome(command.configPath) /\ Trim(Get(command.configPath)) # <<>>
    THEN Trim(Get(command.configPath)) ELSE DEFAULT_CONFIG_PATH

\* loadConfigFile(path): {} for a missing file, the parsed JSON, or the error.
loadConfigFile(files, path) ==
  IF path \notin DOMAIN files \/ files[path].kind = "missing"
    THEN [ok |-> TRUE, json |-> EmptyFile]
  ELSE IF files[path].kind = "json" THEN [ok |-> TRUE, json |-> files[path].json]
  ELSE CliError("Failed to read config file", path)

\* loadMergedConfig(projectRoot, configPath): loadConfig with
\* INTERPEER_CONFIG_PATH pointing at the file for the time of the call.
loadMergedConfig(penv, files, path) ==
  loadConfig([penv EXCEPT !.CONFIG_PATH = Some(path)], files,
             InitialDefaultAgent(penv), InitialDefaultModel(penv)).config

BuiltinIds == {"claude", "codex", "factory"}
IsBuiltin(id) == Len(id) = 1 /\ id[1] \in BuiltinIds

\* overrides.agents = overrides.agents ?? {}
AgentsOf(json) == OrElse(json.agents, NoAgentsPatch)

\* Object.prototype.hasOwnProperty.call(agents, id), for the agents of a file
\* and for those of a loaded configuration.
OwnInPatch(agents, id) ==
  IF IsBuiltin(id) THEN IsSome(agents[id[1]]) ELSE MapHas(agents.custom, id)
OwnInConfig(agents, id) == IsBuiltin(id) \/ MapHas(agents.custom, id)
\* id in agents: own or inherited.
InPatch(agents, id) == OwnInPatch(agents, id) \/ InheritedName(id)
InConfig(agents, id) == OwnInConfig(agents, id) \/ InheritedName(id)

\* agents[id] = value; delete agents[id]
PatchSet(agents, id, value) ==
  IF IsBuiltin(id) THEN [agents EXCEPT ![id[1]] = Some(value)]
  ELSE [agents EXCEPT !.custom = MapSet(@, id, value)]
PatchDelete(agents, id) ==
  IF IsBuiltin(id) THEN [agents EXCEPT ![id[1]] = None]
  ELSE [agents EXCEPT !.custom = MapDelete(@, id)]
PatchGet(agents, id) ==
  IF IsBuiltin(id) THEN agents[id[1]] ELSE MapGet(agents.custom, id)

Done(files, text) == [files |-> files, outcome |-> [ok |-> TRUE, message |-> text]]
Failed(files, error) == [files |-> files, outcome |-> error]

\* An add-agent that does not look at the reserved ids.
addAgentAction_NoReserved(penv, files, path, command) ==
  LET overrides == loadConfigFile(files, path)
      id == Get(command.agentId) IN
  IF ~overrides.ok THEN Failed(files, overrides)
  ELSE IF InConfig(loadMergedConfig(penv, files, path).agents, id)
          \/ InPatch(AgentsOf(overrides.json), id)
    THEN Failed(files, CliError("already exists", id))
  ELSE Done(saveConfigFile(files, path,
              [overrides.json EXCEPT !.agents =
                 Some(PatchSet(AgentsOf(overrides.json), id,
                               [model |-> command.model, command |-> command.command,
                                retry |-> command.retry]))]),
            "Added agent")

\* addAgentAction(projectRoot, configPath, command)
addAgentAction(penv, files, path, command) ==
  LET overrides == loadConfigFile(files, path)
      id == Get(command.agentId) IN
  IF ~overrides.ok THEN Failed(files, overrides)
  ELSE IF id \in RESERVED_AGENT_IDS THEN Failed(files, CliError("reserved", id))
  ELSE IF InConfig(loadMergedConfig(penv, files, path).agents, id)
          \/ InPatch(AgentsOf(overrides.json), id)
    THEN Failed(files, CliError("already exists", id))
  ELSE Done(saveConfigFile(files, path,
              [overrides.json EXCEPT !.agents =
                 Some(PatchSet(AgentsOf(overrides.json), id,
                               [model |-> command.model, command |-> command.command,
                                retry |-> command.retry]))]),
            "Added agent")

\* removeAgentAction(configPath, command)
removeAgentAction(files, path, command) ==
  LET overrides == loadConfigFile(files, path)
      id == Get(command.agentId) IN
  IF ~overrides.ok THEN Failed(files, overrides)
  ELSE IF ~IsSome(overrides.json.agents) \/ ~InPatch(Get(overrides.json.agents), id)
    THEN Failed(files, CliError("not found", id))
  ELSE Done(saveConfigFile(files, path,
              [overrides.json EXCEPT !.agents =
                 Some(IF OwnInPatch(Get(overrides.json.agents), id)
                        THEN PatchDelete(Get(overrides.json.agents), id)
                        ELSE Get(overrides.json.agents))]),
            "Removed agent")

\* setAgentAction(projectRoot, configPath, command)
setAgentAction(penv, files, path, command) ==
  LET overrides == loadConfigFile(files, path)
      id == Get(command.agentId) IN
  IF ~overrides.ok THEN Failed(files, overrides)
  ELSE IF ~OwnInConfig(loadMergedConfig(penv, files, path).agents, id)
    THEN Failed(files, CliError("is not defined", id))
  ELSE LET target == OrElse(PatchGet(AgentsOf(overrides.json), id), NoAgentPatch) IN
       Done(saveConfigFile(files, path,
              [overrides.json EXCEPT !.agents =
                 Some(PatchSet(AgentsOf(overrides.json), id,
                        [target EXCEPT
                           !.command = IF IsSome(command.command) THEN command.command ELSE @,
                           !.model = IF IsSome(command.model) THEN command.model ELSE @]))]),
            "Updated agent")

\* setDefaultAction(projectRoot, configPath, command)
setDefaultAction(files, path, command) ==
  LET overrides == loadConfigFile(files, path)
      truthy(v) == IsSome(v) /\ Get(v) # <<>>
      defaults == IF overrides.ok THEN OrElse(overrides.json.defaults, NoDefaultsPatch)
                  ELSE NoDefaultsPatch IN
  IF ~truthy(command.agent) /\ ~truthy(command.model)
    THEN Failed(files, CliError("Nothing to update", <<>>))
  ELSE IF ~overrides.ok THEN Failed(files, overrides)
  ELSE IF truthy(command.agent) /\ Get(command.agent) \notin VALID_AGENTS
    THEN Failed(files, CliError("Unsupported agent", Get(command.agent)))
  ELSE Done(saveConfigFile(files, path,
              [overrides.json EXCEPT !.defaults =
                 Some([agent |-> IF truthy(command.agent) THEN command.agent
                                 ELSE defaults.agent,
                       model |-> IF ~IsSome(command.model) THEN defaults.model
                                 ELSE IF Trim(Get(command.model)) # <<>>
                                   THEN Some(Some(Trim(Get(command.model))))
                                   ELSE None])]),
            "Updated config")

HELP_FLAGS == {<<"--", "help">>, <<"-h">>}
\* shouldShowHelp(argv)
shouldShowHelp(argv) ==
  /\ argv # <<>>
  /\ (argv[1] = <<"help">> \/ \E i \in 1..Len(argv) : argv[i] \in HELP_FLAGS)

\* The switch of main on the parsed command (672-698).
runCommand(penv, files, command) ==
  CASE command.kind = <<"add-agent">> ->
         addAgentAction(penv, files, getConfigPath(command), command)
    [] command.kind = <<"remove-agent">> ->
         removeAgentAction(files, getConfigPath(command), command)
    [] command.kind = <<"set-agent">> ->
         setAgentAction(penv, files, getConfigPath(command), command)
    [] command.kind = <<"set-default">> ->
         setDefaultAction(files, getConfigPath(command), command)
    [] OTHER -> Done(files, "Configured agents")

\* main(): parse the arguments, then run the command; an error of either
\* step is printed and sets the exit code.
agentsMain(penv, files, argv, dirs) ==
  LET parsed == parseCliArgs(argv, dirs) IN
  IF shouldShowHelp(argv) THEN Done(files, "Interpeer Agents CLI")
  ELSE IF ~parsed.ok THEN Failed(files, parsed)
  ELSE runCommand(penv, files, parsed.command)

-----------------------------------------------------------------------------
(* Sequences of interpeer-agents commands on one config file *)

IdFlag(id) == <<"--", "id", "=", id>>
AddArgs(id) ==
  << <<"add-agent">>, IdFlag(id), <<"--", "command", "=", "or">>,
     <<"--", "model", "=", "gpt">> >>
RemoveArgs(id) == << <<"remove-agent">>, IdFlag(id) >>
AdminCommands ==
  { AddArgs("openrouter"), AddArgs("copilot"), AddArgs("claude"),
    RemoveArgs("openrouter"), RemoveArgs("copilot"), RemoveArgs("claude"),
    RemoveArgs("constructor"),
    << <<"set-agent">>, IdFlag("claude"), <<"--", "model", "=", "opus">> >>,
    << <<"set-default">>, <<"--", "agent", "=", "codex_cli">> >>,
    << <<"list-agents">> >>,
    << <<"add-agent">>, IdFlag("claude"), <<"--", "help">> >> }

AdminFiles == {MissingFile, MalformedFile, JsonFile(EmptyFile), JsonFile(FileOpus)}

InitAdmin ==
  /\ resultCache = <<>> /\ now = 0 /\ heap = <<>> /\ boot = NoBoot /\ flight = NoFlight /\ callerResult = None
  /\ held = None /\ lastOp = NoOp /\ run = EmptyRun /\ snap = <<>>
  /\ rt = RtIdle /\ op = OpIdle
  /\ env = EmptyEnv
  /\ \E f \in AdminFiles : fsys = [NoFiles EXCEPT ![DEFAULT_CONFIG_PATH] = f]
  /\ defaultTargetAgent = InitialDefaultAgent(env)
  /\ defaultModelOverride = InitialDefaultModel(env)
  /\ runtimeConfig = None /\ loaded = None
  /\ call = CallIdle /\ resp = NoResp /\ checked = NoneChecked /\ installed = {}
  /\ obs = NoObs /\ prev = None /\ trace = NoTrace /\ reply = NoReply

\* interpeer-agents is run with argv, in a process of its own: snap keeps the
\* file as it was before the command.
RunAgentsCli(argv) ==
  LET r == agentsMain(env, fsys, argv, CliDirs) IN
  /\ fsys' = r.files
  /\ snap' = Some(fsys[DEFAULT_CONFIG_PATH])
  /\ lastOp' = [op |-> "interpeer-agents", key |-> Some(DEFAULT_CONFIG_PATH),
                arg |-> argv, ret |-> Some(r.outcome), wasPresent |-> FALSE, age |-> 0]
  /\ UNCHANGED <<resultCache, now, heap, flight, boot, callerResult, held, run>>
  /\ UNCHANGED <<retryVars, routeVars>>
  /\ UNCHANGED <<env, defaultTargetAgent, defaultModelOverride, runtimeConfig, loaded>>

NextAdmin == \E argv \in AdminCommands : RunAgentsCli(argv)

SpecAdmin == InitAdmin /\ [][NextAdmin]_vars
-----------------------------------------------------------------------------
(* Claims about the commands that edit the config file *)

Ran == lastOp.op = "interpeer-agents"
Outcome == Get(lastOp.ret)
FileBefore == Get(snap)
FileNow == fsys[DEFAULT_CONFIG_PATH]
\* The command main dispatched, when it got that far.
Dispatched(kind) ==
  /\ Ran /\ ~shouldShowHelp(lastOp.arg)
  /\ parseCliArgs(lastOp.arg, CliDirs).ok
  /\ parseCliArgs(lastOp.arg, CliDirs).command.kind = <<kind>>
DispatchedId == Get(parseCliArgs(lastOp.arg, CliDirs).command.agentId)
FailedWith(label) == ~Outcome.ok /\ Outcome.error[1] = label

AgentIdsIn(file) ==
  IF file.kind # "json" THEN {}
  ELSE {<<b>> : b \in {x \in BuiltinIds : IsSome(AgentsOf(file.json)[x])}}
       \cup {AgentsOf(file.json).custom[i].key : i \in 1..Len(AgentsOf(file.json).custom)}

\* C22: on a config file that is missing or holds JSON, add-agent of a
\* non-reserved id that is in the file fails with 'already exists',
\* remove-agent of an id that is not in the file fails with 'not found', a
\* failing add-agent or remove-agent leaves the file as it was, a successful
\* add-agent leaves the id in the file and a successful remove-agent leaves
\* it out.
C22_AddRemoveSequences ==
  /\ (Dispatched("add-agent") /\ FileBefore.kind # "malformed") =>
       /\ (DispatchedId \notin RESERVED_AGENT_IDS /\ DispatchedId \in AgentIdsIn(FileBefore))
            => FailedWith("already exists")
       /\ ~Outcome.ok => FileNow = FileBefore
       /\ Outcome.ok => DispatchedId \in AgentIdsIn(FileNow)
  /\ (Dispatched("remove-agent") /\ FileBefore.kind # "malformed") =>
       /\ DispatchedId \notin AgentIdsIn(FileBefore) => FailedWith("not found")
       /\ ~Outcome.ok => FileNow = FileBefore
       /\ Outcome.ok => DispatchedId \notin AgentIdsIn(FileNow)
-----------------------------------------------------------------------------
(* routeReview with caching disabled, over a cache that already holds entries *)

CodexResult(text) ==
  [agent |-> CODEX_CLI, model |-> DEFAULT_CODEX_MODEL, text |-> text,
   usage |-> None, cacheStatus |-> None]

\* __testUtils.storeCacheEntry between two requests (index.ts:406): the cache
\* gets an entry that no request of this process has produced.
SeedCache(key, result, maxEntries) ==
  /\ call.pc \in {"idle", "done"}
  /\ resultCache' = storeCacheEntry(resultCache, key, result, maxEntries, now)
  /\ call' = CallIdle /\ resp' = NoResp /\ obs' = NoObs /\ prev' = None
  /\ trace' = NoTrace /\ reply' = NoReply
  /\ UNCHANGED <<now, heap, flight, boot, callerResult, held, lastOp, run, snap>>
  /\ UNCHANGED <<retryVars, configVars, checked, installed>>

InitDisabled ==
  /\ resultCache = <<>> /\ now = 0 /\ heap = <<>> /\ boot = NoBoot /\ flight = NoFlight /\ callerResult = None
  /\ held = None /\ lastOp = NoOp /\ run = EmptyRun /\ snap = <<>>
  /\ rt = RtIdle /\ op = OpIdle
  /\ \E attempts \in 1..MaxRouteAttempts : env = RouteEnv(attempts, FALSE)
  /\ fsys = RouteFiles
  /\ defaultTargetAgent = InitialDefaultAgent(env)
  /\ defaultModelOverride = InitialDefaultModel(env)
  /\ runtimeConfig = None /\ loaded = None
  /\ call = CallIdle /\ resp = NoResp /\ checked = NoneChecked
  /\ installed = AllCommands \ {DEFAULT_FACTORY_COMMAND}
  /\ obs = NoObs /\ prev = None
  /\ trace = NoTrace /\ reply = NoReply

NextDisabled ==
  \/ \E i \in RouteInputs : RouteReviewCall(i)
  \/ \E ok \in BOOLEAN, v \in AdapterValues : AdapterSettles(ok, v)
  \/ BackoffFires
  \/ RouteTick
  \/ SetProjectRoot
  \/ \E k \in {buildCacheKey(InA, CODEX_CLI, None), buildCacheKey(InB, CLAUDE_CODE, None)} :
        SeedCache(k, CodexResult(<<"seeded">>), MaxCap)

SpecDisabled == InitDisabled /\ [][NextDisabled]_vars

\* C31: while the loaded cache policy has enabled = false, a routeReview call
\* leaves the cache as it was when the call began, at each of its steps; a
\* call that returns a result has invoked its adapter and the result is
\* tagged "miss", also when the cache holds an entry under the call's key.
C31_DisabledCacheUntouched ==
  (call.pc \in {"adapter", "done"} /\ IsSome(runtimeConfig)
     /\ ~Get(runtimeConfig).cache.enabled) =>
    /\ resultCache = obs.cacheBefore
    /\ (call.pc = "done" /\ resp.kind = "result") =>
         /\ op.calls >= 1
         /\ resp.result.cacheStatus = Some("miss")

\* A request whose key has a fresh entry in the cache is served by its adapter.
C31_Witness ==
  /\ call.pc = "done" /\ resp.kind = "result"
  /\ ~Get(runtimeConfig).cache.enabled
  /\ MapHas(resultCache, call.key)
  /\ now - Get(MapGet(resultCache, call.key)).timestamp <= Get(runtimeConfig).cache.ttlMs
  /\ Get(MapGet(resultCache, call.key)).agent.text = <<"seeded">>
  /\ resp.result.text # <<"seeded">>
  /\ resp.result.cacheStatus = Some("miss")
-----------------------------------------------------------------------------
\* The call that has just ended returned a result.
Returned == call.pc = "done" /\ resp.kind = "result"

\* C32: a result routeReview returns is tagged "hit" or "miss", "hit" exactly
\* when the call invoked no adapter; no entry held in the cache carries a
\* tag; and a "hit" result is the result held under the call's key when the
\* call began, with the tag added, and names the agent of the request.
C32_OneCacheStatus ==
  /\ \A i \in 1..Len(resultCache) : resultCache[i].value.agent.cacheStatus = None
  /\ Returned =>
       /\ resp.result.cacheStatus \in {Some("hit"), Some("miss")}
       /\ (resp.result.cacheStatus = Some("hit")) <=> (op.calls = 0)
       /\ (resp.result.cacheStatus = Some("hit")) =>
            /\ MapHas(obs.cacheBefore, call.key)
            /\ resp.result = [Get(MapGet(obs.cacheBefore, call.key)).agent
                                EXCEPT !.cacheStatus = Some("hit")]
            /\ resp.result.agent = call.agent
            /\ resp.result.agent = OrElse(call.input.target_agent, obs.defaultAgent)

\* A hit that carries the token usage of the stored result.
C32_Witness ==
  /\ Returned /\ resp.result.cacheStatus = Some("hit") /\ op.calls = 0
  /\ IsSome(resp.result.usage)
  /\ MapHas(resultCache, call.key)
-----------------------------------------------------------------------------
(* Requests that differ and share a cache key *)

Hello == [NoInput EXCEPT !.content = <<"hello">>]
KeyInputs ==
  { Hello,
    [Hello EXCEPT !.focus = Some(<<>>), !.style = Some("structured"),
                  !.review_type = Some("general")],
    [Hello EXCEPT !.target_agent = Some(CLAUDE_CODE)],
    [Hello EXCEPT !.target_agent = Some(CLAUDE_CODE), !.target_model = Some(<<" ", "opus">>)],
    [Hello EXCEPT !.style = Some("freeform")],
    [Hello EXCEPT !.target_model = Some(<<" ">>)] }

InitKeys ==
  /\ resultCache = <<>> /\ now = 0 /\ heap = <<>> /\ boot = NoBoot /\ flight = NoFlight /\ callerResult = None
  /\ held = None /\ lastOp = NoOp /\ run = EmptyRun /\ snap = <<>>
  /\ rt = RtIdle /\ op = OpIdle
  /\ env = RouteEnv(1, TRUE)
  /\ fsys = RouteFiles
  /\ defaultTargetAgent = InitialDefaultAgent(env)
  /\ defaultModelOverride = InitialDefaultModel(env)
  /\ runtimeConfig = None /\ loaded = None
  /\ call = CallIdle /\ resp = NoResp /\ checked = NoneChecked
  /\ installed = AllCommands
  /\ obs = NoObs /\ prev = None
  /\ trace = NoTrace /\ reply = NoReply

NextKeys ==
  \/ \E i \in KeyInputs : RouteReviewCall(i)
  \/ \E ok \in BOOLEAN : AdapterSettles(ok, [text |-> <<"LGTM">>, usage |-> None])
  \/ Between /\ \E m \in {None, Some(<<"opus">>)} : SetDefaultModel(m)

SpecKeys == InitKeys /\ [][NextKeys]_vars

\* The call that has just ended was answered from the cache with the entry
\* the call before it had stored.
HitOnPrevious ==
  /\ Returned /\ resp.result.cacheStatus = Some("hit")
  /\ IsSome(obs.prev) /\ Get(obs.prev).key = call.key

\* The model id the adapter of the call that has just ended is given.
ModelForCall ==
  IF IsSome(call.modelOverride) THEN Get(call.modelOverride)
  ELSE Get(runtimeConfig).agents[AdapterOf(call.agent)].model

\* C33: when a request is answered from the cache with the entry an earlier
\* request stored under the same key, the two requests are for the same agent,
\* buildPromptBundle gives the same {system, user} for both prepared requests,
\* and the model of the stored response is the model id the adapter would be
\* given for the current request.
C33_KeyDeterminesPrompt ==
  HitOnPrevious =>
    /\ Get(obs.prev).agent = call.agent
    /\ buildPromptBundle(prepareInput(Get(obs.prev).input, fsys).input)
         = buildPromptBundle(Get(call.prepared))
    /\ Get(obs.prev).result.model = ModelForCall
    /\ resp.result.model = ModelForCall
    /\ resp.result.text = Get(obs.prev).result.text

\* A request with an explicit agent and model is answered with the response
\* stored for a request that named neither.
C33_Witness ==
  /\ HitOnPrevious
  /\ Get(obs.prev).input # call.input
  /\ IsSome(call.input.target_model) /\ ~IsSome(Get(obs.prev).input.target_model)
  /\ resp.result.model = <<"opus">>
-----------------------------------------------------------------------------
\* C35: a getCacheEntry that returns an entry leaves the cache as it was: the
\* same keys in the same eviction order, with the same timestamps and values.
C35_ReadLeavesCacheAlone ==
  [][(lastOp'.op = "get" /\ IsSome(lastOp'.ret))
       => (resultCache' = resultCache /\ heap' = heap /\ now' = now)]_vars

\* The oldest of two entries has been read and is still the first in line for
\* capacity eviction, with the timestamp it was stored with.
C35_Witness ==
  /\ lastOp.op = "get" /\ IsSome(lastOp.ret)
  /\ Len(resultCache) = 2
  /\ resultCache[1].key = Get(lastOp.key)
  /\ resultCache[1].value.timestamp < now
  /\ Get(lastOp.ret).timestamp = resultCache[1].value.timestamp
-----------------------------------------------------------------------------
\* C36: the model id given to an adapter and recorded in a result is never
\* the empty string; a request whose target_model is empty or only white
\* space gets the model a request without target_model gets: the default-model
\* override when the request names no agent and an override is set, else the
\* model configured for the agent.
C36_ModelNeverEmpty ==
  (call.pc \in {"adapter", "done"} /\ IsSome(call.prepared)) =>
    /\ ModelForCall # <<>>
    /\ Returned => resp.result.model # <<>>
    /\ (IsSome(call.input.target_model) /\ Trim(Get(call.input.target_model)) = <<>>) =>
         ModelForCall =
           IF ~IsSome(call.input.target_agent) /\ IsSome(obs.defaultModel)
             THEN Get(obs.defaultModel)
             ELSE Get(runtimeConfig).agents[AdapterOf(call.agent)].model
-----------------------------------------------------------------------------
(* bootstrapServer, called more than once (index.ts:366-397) *)

MaxBootCalls == 2
BootRoots == {None, Some(<<"/repo">>)}

\* bootstrapServer(options) from its entry to its first wait: the early return
\* when the server has started, else the project root, the configuration and
\* the read of package.json.
BootstrapServer(root) ==
  /\ Len(boot.calls) < MaxBootCalls
  /\ IF boot.started
       THEN /\ boot' = [boot EXCEPT !.calls = Append(@, [pc |-> "returned", root |-> root,
                                                         early |-> TRUE])]
            /\ UNCHANGED <<runtimeConfig, defaultTargetAgent, defaultModelOverride>>
       ELSE LET r == loadConfig(env, fsys, defaultTargetAgent, defaultModelOverride) IN
            /\ boot' = [boot EXCEPT
                          !.projectRootPath = OrElse(root, <<"__dirname">>),
                          !.calls = Append(@, [pc |-> "loadPackageVersion", root |-> root,
                                               early |-> FALSE])]
            /\ runtimeConfig' = Some(r.config)
            /\ defaultTargetAgent' = r.defaultTargetAgent
            /\ defaultModelOverride' = r.defaultModelOverride
  /\ UNCHANGED <<env, fsys, loaded>>
  /\ UNCHANGED <<resultCache, now, heap, flight, callerResult, held, lastOp, run, snap>>
  /\ UNCHANGED <<retryVars, routeVars>>

\* package.json has been read: ensureServerInstance(version) creates the
\* server and registers the tool unless a server exists, then connect is
\* called with a new transport.
VersionLoaded(c) ==
  /\ c \in 1..Len(boot.calls) /\ boot.calls[c].pc = "loadPackageVersion"
  /\ boot' = [boot EXCEPT !.server = TRUE,
                           !.registered = IF boot.server THEN @ ELSE @ + 1,
                           !.calls[c].pc = "connect"]
  /\ UNCHANGED <<resultCache, now, heap, flight, callerResult, held, lastOp, run, snap>>
  /\ UNCHANGED <<retryVars, configVars, routeVars>>

\* instance.connect(transport) settles: started is set once it has resolved;
\* a rejection leaves bootstrapServer by the exception.
ConnectSettles(c, ok) ==
  /\ c \in 1..Len(boot.calls) /\ boot.calls[c].pc = "connect"
  /\ boot' = IF ok THEN [boot EXCEPT !.started = TRUE, !.connected = @ + 1,
                                     !.calls[c].pc = "returned"]
                   ELSE [boot EXCEPT !.calls[c].pc = "thrown"]
  /\ UNCHANGED <<resultCache, now, heap, flight, callerResult, held, lastOp, run, snap>>
  /\ UNCHANGED <<retryVars, configVars, routeVars>>

NextBoot ==
  \/ \E root \in BootRoots : BootstrapServer(root)
  \/ \E c \in 1..MaxBootCalls : VersionLoaded(c)
  \/ \E c \in 1..MaxBootCalls, ok \in BOOLEAN : ConnectSettles(c, ok)
  \/ \E f \in {MissingFile, JsonFile(FileDefaults), JsonFile(FileOpus)} :
        WriteConfigFile(DEFAULT_CONFIG_PATH, f)
  \/ \E m \in {None, Some(<<"opus">>)} : SetDefaultModel(m)

SpecBoot == InitConfig /\ [][NextBoot]_vars

\* C37: over any sequence or overlap of bootstrapServer calls at most one
\* transport is connected and the review tool is registered at most once, and
\* a call made once the server has started changes neither the project root
\* nor the loaded configuration.
C37_StartsAtMostOnce ==
  /\ [](boot.connected <= 1 /\ boot.registered <= 1)
  /\ [][(boot.started /\ Len(boot'.calls) > Len(boot.calls))
         => (boot'.projectRootPath = boot.projectRootPath
             /\ runtimeConfig' = runtimeConfig)]_vars
-----------------------------------------------------------------------------
\* C39: a call that probes its agent's command while the command is not
\* available ends at once in the availability error: the adapter's operation
\* is never called, the probe is run once and outside withRetries, nothing is
\* stored in the cache, and the agent's availability flag stays unset.
C39_ProbeFailureIsImmediate ==
  (Called /\ Took("runCliCheck")
     /\ ProbeCommand(AdapterOf(call.agent), Get(runtimeConfig), env) \notin obs.installedBefore) =>
    /\ call.pc = "done"
    /\ resp = [kind |-> "error", error |-> RouteError("CLI not available", call.agent)]
    /\ reply.kind = "error"
    /\ op.calls = 0 /\ rt = RtIdle
    /\ Cardinality({i \in 1..Len(trace.steps) : trace.steps[i] = "runCliCheck"}) = 1
    /\ ~Took("withRetries") /\ ~Took("fn") /\ ~Took("storeCacheEntry")
    /\ resultCache = MapDelete(obs.cacheBefore, call.key)
    /\ checked = obs.checkedBefore
    /\ ~checked[AdapterOf(call.agent)]

\* The probe of the factory command fails while another agent has been
\* checked and its response is held in the cache.
C39_Witness ==
  /\ Called /\ ProbeFailed
  /\ AdapterOf(call.agent) = "factory" /\ ~checked.factory
  /\ checked.codex
  /\ Len(resultCache) >= 1 /\ resultCache = obs.cacheBefore
-----------------------------------------------------------------------------
(* Termination of routeReview under fair scheduling *)

\* The retry counters are followed up to this many attempts of one call.
MaxLiveAttempts == 4

\* The number JSON.parse gives for 1e999. No attempt count is >= Infinity: it
\* stands above every value the attempt counter takes here.
Infinity == MaxLiveAttempts + 1

\* {"agents": {"codex": {"retry": {"maxAttempts": 1e999}}}}
FileForever ==
  [EmptyFile EXCEPT
     !.agents = Some([NoAgentsPatch EXCEPT !.codex =
        Some([NoAgentPatch EXCEPT
               !.retry = Some([NoRetryPatch EXCEPT !.maxAttempts = Some(Infinity)])])])]

InitLive ==
  /\ resultCache = <<>> /\ now = 0 /\ heap = <<>> /\ boot = NoBoot /\ flight = NoFlight /\ callerResult = None
  /\ held = None /\ lastOp = NoOp /\ run = EmptyRun /\ snap = <<>>
  /\ rt = RtIdle /\ op = OpIdle
  /\ \E attempts \in 1..MaxRouteAttempts : env = RouteEnv(attempts, TRUE)
  /\ \E f \in {MissingFile, JsonFile(FileZero), JsonFile(FileForever)} :
        fsys = [RouteFiles EXCEPT ![DEFAULT_CONFIG_PATH] = f]
  /\ defaultTargetAgent = InitialDefaultAgent(env)
  /\ defaultModelOverride = InitialDefaultModel(env)
  /\ runtimeConfig = None /\ loaded = None
  /\ call = CallIdle /\ resp = NoResp /\ checked = NoneChecked
  /\ installed = AllCommands \ {DEFAULT_FACTORY_COMMAND}
  /\ obs = NoObs /\ prev = None
  /\ trace = NoTrace /\ reply = NoReply

\* Past MaxLiveAttempts the loop of withRetries goes on as the code has it,
\* catch to sleep to fn (index.ts:1026-1031), with attempt, delay and the
\* record of the attempts no longer counted.
FnFailsAgain ==
  /\ call.pc = "adapter" /\ rt.pc = "fn" /\ rt.attempt >= MaxLiveAttempts
  /\ withRetriesCatch(rt, ErrorOf(op.calls)).pc = "sleep"
  /\ rt' = [rt EXCEPT !.pc = "sleep"]
  /\ UNCHANGED <<op, cacheVars, configVars, routeVars>>

SleepEndsAgain ==
  /\ call.pc = "adapter" /\ rt.pc = "sleep" /\ rt.attempt >= MaxLiveAttempts
  /\ rt' = [rt EXCEPT !.pc = "fn"]
  /\ UNCHANGED <<op, cacheVars, configVars, routeVars>>

AdapterCompletes ==
  \/ \E v \in AdapterValues : AdapterSettles(TRUE, v)
  \/ rt.attempt < MaxLiveAttempts /\ \E v \in AdapterValues : AdapterSettles(FALSE, v)
  \/ FnFailsAgain

TimerFires ==
  \/ rt.attempt < MaxLiveAttempts /\ BackoffFires
  \/ SleepEndsAgain

NextLive ==
  \/ \E i \in RouteInputs : RouteReviewCall(i)
  \/ AdapterCompletes
  \/ TimerFires

\* Every adapter invocation completes and every backoff timer fires.
SpecLive ==
  InitLive /\ [][NextLive]_vars /\ WF_vars(AdapterCompletes) /\ WF_vars(TimerFires)

\* C38: every routeReview call that has reached its adapter eventually
\* completes with a result or an error, whatever maxAttempts is and also when
\* every attempt fails.
C38_EveryCallCompletes ==
  (call.pc = "adapter") ~> (call.pc = "done")
-----------------------------------------------------------------------------
(* Several routeReview calls in flight, interleaved at their awaits *)

FlightInputs ==
  { [InA EXCEPT !.target_agent = Some(CODEX_CLI)],
    InA,
    InB,
    [InB EXCEPT !.target_agent = Some(FACTORY_DROID)] }

FlightEnv == RouteEnv(MaxRouteAttempts, TRUE)

InitFlight ==
  /\ resultCache = <<>> /\ now = 0 /\ heap = <<>> /\ boot = NoBoot /\ flight = NoFlight
  /\ callerResult = None
  /\ held = None /\ lastOp = NoOp /\ run = EmptyRun /\ snap = <<>>
  /\ rt = RtIdle /\ op = OpIdle
  /\ env = FlightEnv
  /\ fsys = RouteFiles
  /\ defaultTargetAgent = InitialDefaultAgent(env)
  /\ defaultModelOverride = InitialDefaultModel(env)
  /\ runtimeConfig = None /\ loaded = None
  /\ call = CallIdle /\ resp = NoResp /\ checked = NoneChecked
  /\ installed = AllCommands \ {DEFAULT_FACTORY_COMMAND}
  /\ obs = NoObs /\ prev = None
  /\ trace = NoTrace /\ reply = NoReply

\* What a step of one call in flight leaves alone.
FlightFrame ==
  /\ UNCHANGED <<now, heap, boot, callerResult, held, lastOp, run, snap>>
  /\ UNCHANGED <<retryVars, env, fsys, loaded, installed>>
  /\ UNCHANGED <<call, resp, obs, prev, trace, reply>>

\* routeReview from its entry to await prepareInput (index.ts:434-436).
FlightCall(c, input) ==
  LET ens == ensureConfig(runtimeConfig, env, fsys, defaultTargetAgent,
                          defaultModelOverride) IN
  /\ flight.calls[c].pc \in {"idle", "done"}
  /\ runtimeConfig' = Some(ens.config)
  /\ defaultTargetAgent' = ens.defaultTargetAgent
  /\ defaultModelOverride' = ens.defaultModelOverride
  /\ flight' = [flight EXCEPT !.calls[c] =
                  [FlightIdle EXCEPT !.pc = "prepareInput", !.input = input,
                     !.agent = OrElse(input.target_agent, ens.defaultTargetAgent)]]
  /\ UNCHANGED <<resultCache, checked>>
  /\ FlightFrame

\* routeReview rejects: its locals are gone, the caller has the error.
FlightThrows(c, rec, error) ==
  flight' = [flight EXCEPT !.calls[c] =
               [FlightIdle EXCEPT !.pc = "done",
                                  !.out = [kind |-> "error", error |-> error]]]

\* The switch and the head of the adapter (index.ts:453-466, 484-501): the
\* probe, then withRetries up to its first await fn().
FlightDispatch(c, rec, config, adapter) ==
  IF adapter = "unsupported" THEN
    /\ FlightThrows(c, rec, RouteError("Unsupported target agent", rec.agent))
    /\ UNCHANGED checked
  ELSE IF ~(checked[adapter] \/ ProbeCommand(adapter, config, env) \in installed) THEN
    /\ FlightThrows(c, rec, RouteError("CLI not available", rec.agent))
    /\ UNCHANGED checked
  ELSE
    /\ checked' = [checked EXCEPT ![adapter] = TRUE]
    /\ flight' = [flight EXCEPT
                    !.calls[c] = [rec EXCEPT !.pc = "fn", !.invoked = 1,
                                    !.rt = withRetriesEnter(config.agents[adapter].retry)],
                    !.probed = IF checked[adapter] THEN @ ELSE @ \cup {adapter}]

\* The cache read (index.ts:445-451), then the dispatch.
FlightLookup(c, rec, config, look) ==
  /\ resultCache' = look.cache
  /\ IF IsSome(look.ret)
       THEN /\ flight' = [flight EXCEPT !.calls[c] =
                            [rec EXCEPT !.pc = "logReviewMetrics",
                               !.out = [kind |-> "result",
                                        result |-> [Get(look.ret).agent
                                                      EXCEPT !.cacheStatus = Some("hit")]]]]
            /\ UNCHANGED checked
       ELSE FlightDispatch(c, rec, config, AdapterOf(rec.agent))

FlightKeyed(c, rec, config) ==
  FlightLookup(c, [rec EXCEPT !.key = buildCacheKey(Get(rec.prepared), rec.agent,
                                                    rec.modelOverride)],
               config,
               routeLookup(resultCache, config,
                           buildCacheKey(Get(rec.prepared), rec.agent, rec.modelOverride),
                           now))

\* prepareInput has settled: routeReview runs on to its next await
\* (index.ts:436-451 and the adapter up to await fn()).
FlightPrepared(c) ==
  LET rec == flight.calls[c]
      prep == prepareInput(rec.input, fsys)
      explicitModel == TrimOpt(prep.input.target_model) IN
  /\ rec.pc = "prepareInput"
  /\ IF ~prep.ok
       THEN /\ FlightThrows(c, rec, RouteError("Failed to read resource", prep.failed))
            /\ UNCHANGED <<resultCache, checked>>
       ELSE FlightKeyed(c, [rec EXCEPT
                              !.prepared = Some(prep.input),
                              !.modelOverride =
                                 IF IsSome(explicitModel) THEN explicitModel
                                 ELSE IF ~IsSome(rec.input.target_agent)
                                   THEN defaultModelOverride ELSE None],
                        Get(runtimeConfig))
  /\ UNCHANGED <<runtimeConfig, defaultTargetAgent, defaultModelOverride>>
  /\ FlightFrame

\* The adapter has its value: the result, the store and await
\* logReviewMetrics (index.ts:517-530, 468-474).
FlightReturns(c, rec, config, result) ==
  /\ resultCache' = routeStore(resultCache, config, rec.key, result, now)
  /\ flight' = [flight EXCEPT
                  !.calls[c] = [rec EXCEPT !.pc = "logReviewMetrics",
                                  !.out = [kind |-> "result", result |-> result]],
                  !.produced = @ \cup {[key |-> rec.key,
                                        result |-> [result EXCEPT !.cacheStatus = None]]}]

\* await fn() settles inside withRetries (index.ts:1023-1031).
FlightFnSettles(c, ok, value) ==
  LET rec == flight.calls[c]
      config == Get(runtimeConfig)
      adapter == AdapterOf(rec.agent)
      after == IF ok THEN withRetriesResolve(rec.rt, value)
                     ELSE withRetriesCatch(rec.rt, ErrorOf(rec.invoked)) IN
  /\ rec.pc = "fn"
  /\ (ok /\ adapter = "factory") => config.agents.factory.command \in installed
  /\ CASE after.pc = "returned" ->
            FlightReturns(c, [rec EXCEPT !.rt = after], config,
              [AdapterResult(adapter, rec.agent,
                             IF IsSome(rec.modelOverride) THEN Get(rec.modelOverride)
                             ELSE config.agents[adapter].model, value)
                 EXCEPT !.cacheStatus = Some("miss")])
       [] after.pc = "thrown" ->
            /\ FlightThrows(c, [rec EXCEPT !.rt = after], Get(after.error))
            /\ UNCHANGED resultCache
       [] OTHER ->
            /\ flight' = [flight EXCEPT !.calls[c] = [rec EXCEPT !.pc = "sleep", !.rt = after]]
            /\ UNCHANGED resultCache
  /\ UNCHANGED <<checked, runtimeConfig, defaultTargetAgent, defaultModelOverride>>
  /\ FlightFrame

\* The backoff timer of one call fires (index.ts:1030-1031, 1024-1025).
FlightTimerFires(c) ==
  /\ flight.calls[c].pc = "sleep"
  /\ flight' = [flight EXCEPT !.calls[c].pc = "fn",
                              !.calls[c].rt = withRetriesWake(@),
                              !.calls[c].invoked = @ + 1]
  /\ UNCHANGED <<resultCache, checked, runtimeConfig, defaultTargetAgent,
                 defaultModelOverride>>
  /\ FlightFrame

\* await logReviewMetrics settles: routeReview returns (index.ts:448-449, 474-476).
FlightLogSent(c) ==
  /\ flight.calls[c].pc = "logReviewMetrics"
  /\ flight' = [flight EXCEPT !.calls[c] =
                  [FlightIdle EXCEPT !.pc = "done", !.out = flight.calls[c].out]]
  /\ UNCHANGED <<resultCache, checked, runtimeConfig, defaultTargetAgent,
                 defaultModelOverride>>
  /\ FlightFrame

NextFlight ==
  \/ \E c \in CallIds, i \in FlightInputs : FlightCall(c, i)
  \/ \E c \in CallIds : FlightPrepared(c)
  \/ \E c \in CallIds, ok \in BOOLEAN :
        FlightFnSettles(c, ok, [text |-> <<"LGTM">>, usage |-> None])
  \/ \E c \in CallIds : FlightTimerFires(c)
  \/ \E c \in CallIds : FlightLogSent(c)
  \/ RouteTick

SpecFlight == InitFlight /\ [][NextFlight]_vars
Retrying == {c \in CallIds : flight.calls[c].pc \in {"fn", "sleep"}}

OneEntryPerKey ==
  \A i, j \in 1..Len(resultCache) :
    resultCache[i].key = resultCache[j].key => i = j

WithinMaxEntries ==
  IsSome(runtimeConfig) => Len(resultCache) <= Get(runtimeConfig).cache.maxEntries

EntriesWereProduced ==
  \A i \in 1..Len(resultCache) :
    [key |-> resultCache[i].key, result |-> resultCache[i].value.agent] \in flight.produced

OwnRetryState ==
  \A c \in Retrying :
    LET r == flight.calls[c].rt IN
    /\ r.attempt = flight.calls[c].invoked
    /\ r.attempt >= 1 /\ r.attempt <= r.maxAttempts
    /\ r.delay = r.baseDelayMs * Pow2(r.attempt - 1)

FlagsFollowProbes ==
  \A a \in DOMAIN checked : checked[a] => a \in flight.probed

OneCallPerStep ==
  \A c, d \in CallIds :
    (c # d /\ flight'.calls[c] # flight.calls[c]) => flight'.calls[d] = flight.calls[d]

\* C34: with several routeReview calls interleaved at their awaits, in every
\* reachable state the cache holds at most one entry per key and at most
\* maxEntries entries, every entry is a result an adapter call produced for a
\* request with that key, every call in withRetries has the attempt counter and
\* the backoff delay of its own attempts only, an availability flag is set only
\* after a successful probe of that agent, and every step, a cache read or a
\* store included, belongs to one call and changes no other call's state.
C34_SharedStateConsistent ==
  /\ [](OneEntryPerKey /\ WithinMaxEntries /\ EntriesWereProduced
          /\ OwnRetryState /\ FlagsFollowProbes)
  /\ [][OneCallPerStep]_vars

\* Two calls are inside withRetries at different attempts, one of them in its
\* backoff delay, while an entry stored by an earlier call is in the cache.
C34_Witness ==
  /\ Retrying = CallIds
  /\ flight.calls["first"].rt.attempt # flight.calls["second"].rt.attempt
  /\ \E c \in CallIds : flight.calls[c].pc = "sleep"
  /\ Len(resultCache) >= 1
  /\ checked.claude /\ checked.codex
====
